---------------------------- MODULE Spec2Model ----------------------------
(***************************************************************************)
(* A model of prettier-plugin-mp, the WXML / WXS formatter.                *)
(*                                                                         *)
(* Text is a sequence of one-character strings, so that the regular        *)
(* expressions of the source are computed character by character.          *)
(* A document-model value (Prettier's "doc") is a flat sequence of items:  *)
(* a string, a hardline or a softline, each carrying the indent level it   *)
(* was wrapped in.                                                         *)
(***************************************************************************)
EXTENDS Integers, Sequences, FiniteSets, TLC

VARIABLES
    pc,      \* position of the invocation: which step runs next
    opts,    \* the options value of the invocation
    arg,     \* the input of the operation under study
    res      \* its result

vars == <<pc, opts, arg, res>>

(***************************************************************************)
(* Values                                                                  *)
(***************************************************************************)
\* JavaScript null / undefined for a string-valued field
NullStr == <<"null">>
\* JavaScript undefined for a number-valued option
Undefined == -1

Ws == {" ", "\t", "\n", "\r"}
IsWs(c) == c \in Ws

(***************************************************************************)
(* String primitives of JavaScript, with 1-based positions                 *)
(***************************************************************************)
Range(f) == {f[i] : i \in DOMAIN f}

MinOf(S) == CHOOSE x \in S : \A y \in S : x <= y
MaxOf(S) == CHOOSE x \in S : \A y \in S : x >= y

\* the first position >= i whose character is not in set
SkipIn(s, i, set) ==
    LET S == {k \in i..Len(s) : s[k] \notin set}
    IN  IF S # {} THEN MinOf(S) ELSE IF i > Len(s) THEN i ELSE Len(s) + 1

\* the last position <= i whose character is not in set (0 if none)
SkipBack(s, i, set) ==
    LET S == {k \in 1..i : s[k] \notin set}
    IN  IF S # {} THEN MaxOf(S) ELSE IF i < 1 THEN i ELSE 0

MatchAt(s, i, p) ==
    /\ i >= 1
    /\ i + Len(p) - 1 <= Len(s)
    /\ SubSeq(s, i, i + Len(p) - 1) = p

Includes(s, p) == \E i \in 1..Len(s) : MatchAt(s, i, p)

StartsWith(s, p) == MatchAt(s, 1, p)
EndsWith(s, p) == MatchAt(s, Len(s) - Len(p) + 1, p)

TrimEnd(s) == SubSeq(s, 1, SkipBack(s, Len(s), Ws))
TrimStart(s) == SubSeq(s, SkipIn(s, 1, Ws), Len(s))
Trim(s) == TrimStart(TrimEnd(s))

Spaces(n) == [k \in 1..n |-> " "]

RECURSIVE Flatten(_)
\* the concatenation of a sequence of texts
Flatten(ss) == IF ss = <<>> THEN <<>> ELSE Head(ss) \o Flatten(Tail(ss))

SeqsUpTo(S, n) == UNION {[1..k -> S] : k \in 0..n}

(***************************************************************************)
(* Document-model builders and the renderer                                *)
(***************************************************************************)
Str(s) == <<[t |-> "s", s |-> s, ind |-> 0]>>
hardline == <<[t |-> "hardline", s |-> <<>>, ind |-> 0]>>
softline == <<[t |-> "softline", s |-> <<>>, ind |-> 0]>>
literalline == <<[t |-> "literalline", s |-> <<>>, ind |-> 0]>>
indent(doc) == [i \in 1..Len(doc) |-> [doc[i] EXCEPT !.ind = @ + 1]]

RECURSIVE join(_, _)
join(sep, docs) ==
    IF docs = <<>> THEN <<>>
    ELSE IF Len(docs) = 1 THEN Head(docs)
    ELSE Head(docs) \o sep \o join(sep, Tail(docs))

RECURSIVE RenderFrom(_, _, _, _)
\* The renderer: a string is appended; a line break removes the blanks that
\* end the current line, then starts a new line at the item's indentation.
\* Every softline the printer builds stands beside a hardline, which breaks
\* all enclosing groups, so a softline is a line break too.  A literalline
\* starts a new line at column 0 and trims nothing.
RenderFrom(doc, i, out, tabWidth) ==
    IF i > Len(doc) THEN out
    ELSE IF doc[i].t = "s"
         THEN RenderFrom(doc, i + 1, out \o doc[i].s, tabWidth)
         ELSE IF doc[i].t = "literalline"
         THEN RenderFrom(doc, i + 1, out \o <<"\n">>, tabWidth)
         ELSE RenderFrom(doc, i + 1,
                  SubSeq(out, 1, SkipBack(out, Len(out), {" ", "\t"}))
                      \o <<"\n">> \o Spaces(doc[i].ind * tabWidth),
                  tabWidth)

Render(doc, tabWidth) == RenderFrom(doc, 1, <<>>, tabWidth)

(***************************************************************************)
(* Interpolation normalisation                                             *)
(***************************************************************************)
\* the expression from position i on with its newlines kept
CollapseNewlines_Kept(s, i) == SubSeq(s, i, Len(s))

RECURSIVE CollapseNewlines(_, _)
\* expr.replace(/[ \t]*[\r\n]+[ \t]*/g, ' ') from position i on
CollapseNewlines(s, i) ==
    LET M == {m \in i..Len(s) :
                 LET j == SkipIn(s, m, {" ", "\t"}) IN j <= Len(s) /\ s[j] \in {"\r", "\n"}}
    IN  IF M = {} THEN SubSeq(s, i, Len(s))
        ELSE LET m == MinOf(M)
                 k == SkipIn(s, SkipIn(s, m, {" ", "\t"}), {"\r", "\n"})
             IN  SubSeq(s, i, m - 1) \o <<" ">>
                     \o CollapseNewlines(s, SkipIn(s, k, {" ", "\t"}))

RECURSIVE SpaceOperator(_, _, _)
\* s.replace(/\s*&&\s*/g, ' && ') and the same for ||, from position i on
SpaceOperator(s, i, op) ==
    LET M == {m \in i..Len(s) : MatchAt(s, SkipIn(s, m, Ws), op)}
    IN  IF M = {} THEN SubSeq(s, i, Len(s))
        ELSE LET m == MinOf(M)
                 j == SkipIn(s, m, Ws)
             IN  SubSeq(s, i, m - 1) \o <<" ">> \o op \o <<" ">>
                     \o SpaceOperator(s, SkipIn(s, j + 2, Ws), op)

formatInlineJsExpression(expr) ==
    Trim(SpaceOperator(SpaceOperator(CollapseNewlines(expr, 1), 1, <<"&", "&">>),
                       1, <<"|", "|">>))

\* the lazy ([\s\S]*?) of /{{(\s*)([\s\S]*?)(\s*)}}/: the first position e >= i
\* at which \s*}} matches, 0 when there is none
FindClose(s, e) ==
    LET E == {x \in e..Len(s) : MatchAt(s, SkipIn(s, x, Ws), <<"}", "}">>)}
    IN  IF E = {} THEN 0 ELSE MinOf(E)

RECURSIVE ReplaceInterpolations(_, _)
\* text.replace(/{{(\s*)([\s\S]*?)(\s*)}}/g, ...) from position i on
ReplaceInterpolations(s, i) ==
    LET M == {m \in i..Len(s) :
                 MatchAt(s, m, <<"{", "{">>) /\ FindClose(s, SkipIn(s, m + 2, Ws)) # 0}
    IN  IF M = {} THEN SubSeq(s, i, Len(s))
        ELSE LET m == MinOf(M)
                 a == SkipIn(s, m + 2, Ws)
                 e == FindClose(s, a)
                 c == SkipIn(s, e, Ws)
             IN  SubSeq(s, i, m - 1) \o <<"{", "{">> \o SubSeq(s, m + 2, a - 1)
                     \o formatInlineJsExpression(SubSeq(s, a, e - 1))
                     \o SubSeq(s, e, c - 1) \o <<"}", "}">>
                     \o ReplaceInterpolations(s, c + 2)

formatWxmlInterpolations(text) ==
    IF ~Includes(text, <<"{", "{">>) THEN text
    ELSE ReplaceInterpolations(text, 1)

(***************************************************************************)
(* Attribute values and the start tag                                      *)
(***************************************************************************)
DQ == "\""
SQ == "'"

IsQuoted(v) ==
    \/ StartsWith(v, <<DQ>>) /\ EndsWith(v, <<DQ>>)
    \/ StartsWith(v, <<SQ>>) /\ EndsWith(v, <<SQ>>)

\* the mutant of normalizeAttrValueForWxmlQuotes: the preferred quote is
\* applied without looking at the content
normalizeAttrValue_AlwaysPreferred(value, o) ==
    IF value = NullStr THEN NullStr
    ELSE LET q == IF o.wxmlSingleQuote THEN SQ ELSE DQ
             content == formatWxmlInterpolations(
                            IF IsQuoted(value) THEN SubSeq(value, 2, Len(value) - 1)
                            ELSE value)
         IN  <<q>> \o content \o <<q>>

normalizeAttrValueForWxmlQuotes(value, o) ==
    IF value = NullStr THEN NullStr
    ELSE IF IsQuoted(value)
         THEN LET quote == value[1]
                  content == formatWxmlInterpolations(SubSeq(value, 2, Len(value) - 1))
                  preferSingle == o.wxmlSingleQuote
              IN  IF preferSingle /\ ~Includes(content, <<SQ>>)
                  THEN <<SQ>> \o content \o <<SQ>>
                  ELSE IF ~preferSingle /\ ~Includes(content, <<DQ>>)
                       THEN <<DQ>> \o content \o <<DQ>>
                       ELSE <<quote>> \o content \o <<quote>>
         ELSE LET content == formatWxmlInterpolations(value)
              IN  IF o.wxmlSingleQuote THEN <<SQ>> \o content \o <<SQ>>
                  ELSE <<DQ>> \o content \o <<DQ>>

printAttribute(node, o) ==
    IF node.value = NullStr THEN node.key
    ELSE node.key \o <<"=">> \o
         normalizeAttrValueForWxmlQuotes(
             IF node.rawValue # NullStr THEN node.rawValue ELSE node.value, o)

SymbolChars == {"=", "-", "_", ".", "~", "*"}

RECURSIVE RunLength(_, _)
\* how many characters equal to s[i] stand at i, i+1, ...
RunLength(s, i) ==
    IF i < Len(s) /\ s[i + 1] = s[i] THEN 1 + RunLength(s, i + 1) ELSE 1

isPlaceholderLikeValue(value) ==
    IF value = NullStr THEN FALSE
    ELSE LET s == IF IsQuoted(value) THEN SubSeq(value, 2, Len(value) - 1) ELSE value
         IN  \E i \in 1..Len(s) : s[i] \in SymbolChars /\ RunLength(s, i) >= 6

RECURSIVE SumLen(_)
\* attributeDocs.reduce((sum, current) => sum + String(current).length + 1, 0)
SumLen(docs) == IF docs = <<>> THEN 0 ELSE Len(Head(docs)) + 1 + SumLen(Tail(docs))

AttrRaw(attr) == IF attr.rawValue # NullStr THEN attr.rawValue ELSE attr.value

placeholderCountOf(node) ==
    Cardinality({i \in 1..Len(node.attributes) :
                     isPlaceholderLikeValue(AttrRaw(node.attributes[i]))})

printWidthOf(o) ==
    IF o.wxmlPrintWidth # Undefined THEN o.wxmlPrintWidth
    ELSE IF o.printWidth # Undefined /\ o.printWidth # 0 THEN o.printWidth
    ELSE 80

\* the mutant of shouldBreakTag: the self-closing rule is lost
shouldBreakTag_NoSelfClosingRule(node, o) ==
    LET attributeDocs == [i \in 1..Len(node.attributes) |->
                              printAttribute(node.attributes[i], o)]
        placeholderCount == placeholderCountOf(node)
        approximateLength == Len(node.name) + 1 + SumLen(attributeDocs)
                                 + placeholderCount * 10
    IN  approximateLength > printWidthOf(o) \/ placeholderCount >= 2

\* the mutant of shouldBreakTag: the placeholder penalty also breaks a tag
\* with a single placeholder-like value
shouldBreakTag_OnePlaceholderBreaks(node, o) ==
    LET attributeDocs == [i \in 1..Len(node.attributes) |->
                              printAttribute(node.attributes[i], o)]
        placeholderCount == placeholderCountOf(node)
        approximateLength == Len(node.name) + 1 + SumLen(attributeDocs)
                                 + placeholderCount * 10
    IN  \/ approximateLength > printWidthOf(o)
        \/ placeholderCount >= 1
        \/ node.selfClosing /\ Len(node.attributes) >= 4

shouldBreakTag(node, o) ==
    LET attributeDocs == [i \in 1..Len(node.attributes) |->
                              printAttribute(node.attributes[i], o)]
        placeholderCount == placeholderCountOf(node)
        placeholderPenalty == IF placeholderCount > 0 THEN placeholderCount * 10 ELSE 0
        approximateLength == Len(node.name) + 1 + SumLen(attributeDocs)
                                 + placeholderPenalty
    IN  \/ approximateLength > printWidthOf(o)
        \/ placeholderCount >= 2
        \/ node.selfClosing /\ Len(node.attributes) >= 4

printStartTag(node, o) ==
    LET attributeDocs == [i \in 1..Len(node.attributes) |->
                              Str(printAttribute(node.attributes[i], o))]
    IN  Str(<<"<">>) \o Str(node.name)
        \o (IF Len(node.attributes) > 0
            THEN IF shouldBreakTag(node, o)
                 THEN indent(softline \o join(hardline, attributeDocs)) \o hardline
                 ELSE Str(<<" ">>) \o join(Str(<<" ">>), attributeDocs)
            ELSE <<>>)
        \o (IF node.selfClosing THEN Str(<<" ", "/", ">">>) ELSE Str(<<">">>))

(***************************************************************************)
(* Start tags and attribute values: the inputs                             *)
(***************************************************************************)
MaxAttrs == 4
MaxContent == 3

AttrPool == {
    [key |-> <<"a">>, value |-> <<"x">>, rawValue |-> <<DQ, "x", DQ>>],
    [key |-> <<"b">>, value |-> <<"=", "=", "=", "=", "=", "=">>,
     rawValue |-> <<DQ, "=", "=", "=", "=", "=", "=", DQ>>],
    [key |-> <<"c">>, value |-> <<"-", "-", "-", "-", "-", "-">>,
     rawValue |-> <<SQ, "-", "-", "-", "-", "-", "-", SQ>>],
    [key |-> <<"d">>, value |-> NullStr, rawValue |-> NullStr] }

NoNode == [name |-> <<>>, attributes |-> <<>>, selfClosing |-> FALSE]

TagArgs ==
    {[kind |-> "tag",
      node |-> [name |-> <<"v">>, attributes |-> as, selfClosing |-> sc],
      quote |-> "none", content |-> <<>>] :
        as \in SeqsUpTo(AttrPool, MaxAttrs), sc \in BOOLEAN}

ContentPieces ==
    {<<"a">>, <<SQ>>, <<DQ>>, <<" ">>, <<"{", "{">>, <<"}", "}">>,
     <<"{", "{", "a", "&", "&", "b", "}", "}">>}

ValueArgs ==
    {[kind |-> "value", node |-> NoNode, quote |-> q, content |-> Flatten(ps)] :
        q \in {DQ, SQ, "none"}, ps \in SeqsUpTo(ContentPieces, MaxContent)}

\* the attribute value a "value" input stands for
ValueOf(a) ==
    IF a.quote = "none" THEN a.content ELSE <<a.quote>> \o a.content \o <<a.quote>>

TagOptions ==
    [wxmlPrintWidth : {Undefined, 20}, printWidth : {Undefined, 0, 30},
     wxmlSingleQuote : BOOLEAN, tabWidth : {2}]

ValueOptions ==
    [wxmlPrintWidth : {Undefined}, printWidth : {Undefined},
     wxmlSingleQuote : BOOLEAN, tabWidth : {2}]

NoResult == [doc |-> <<>>, text |-> <<>>]

InitAttr ==
    /\ pc = "ready"
    /\ res = NoResult
    /\ \/ arg \in TagArgs /\ opts \in TagOptions
       \/ arg \in ValueArgs /\ opts \in ValueOptions

\* printStartTag on a start-tag node, rendered
PrintStartTag ==
    /\ pc = "ready"
    /\ arg.kind = "tag"
    /\ LET d == printStartTag(arg.node, opts)
       IN  res' = [doc |-> d, text |-> Render(d, opts.tabWidth)]
    /\ pc' = "done"
    /\ UNCHANGED <<opts, arg>>

\* normalizeAttrValueForWxmlQuotes on an attribute value
NormalizeAttrValue ==
    /\ pc = "ready"
    /\ arg.kind = "value"
    /\ res' = [doc |-> <<>>, text |-> normalizeAttrValueForWxmlQuotes(ValueOf(arg), opts)]
    /\ pc' = "done"
    /\ UNCHANGED <<opts, arg>>

NextAttr == PrintStartTag \/ NormalizeAttrValue

SpecAttr == InitAttr /\ [][NextAttr]_vars

(***************************************************************************)
(* Start tags and attribute values: the claims                             *)
(***************************************************************************)
\* the print width in force: the markup-specific one when it is a number,
\* else the host-wide one when there is one, else 80
EffectiveWidth(o) ==
    IF o.wxmlPrintWidth # Undefined THEN o.wxmlPrintWidth
    ELSE IF o.printWidth \notin {Undefined, 0} THEN o.printWidth ELSE 80

\* a run of six or more identical characters among = - _ . ~ *
ContainsRun(v) ==
    v # NullStr /\
    \E i \in 1..(Len(v) - 5) :
        v[i] \in {"=", "-", "_", ".", "~", "*"} /\
        \A k \in 1..5 : v[i + k] = v[i]

RunCount(node) ==
    Cardinality({i \in 1..Len(node.attributes) : ContainsRun(AttrRaw(node.attributes[i]))})

PrintedAttrs(node, o) ==
    [i \in 1..Len(node.attributes) |-> printAttribute(node.attributes[i], o)]

\* "<" name, then every attribute after a blank: the tag on one line
OneLine(node, o) ==
    <<"<">> \o node.name
        \o Flatten([i \in 1..Len(node.attributes) |-> <<" ">> \o PrintedAttrs(node, o)[i]])

TagClose(node) == IF node.selfClosing THEN <<" ", "/", ">">> ELSE <<">">>

OneLineLayout(node, o) == OneLine(node, o) \o TagClose(node)

\* every attribute on a line of its own, indented by one level
BrokenLayout(node, o) ==
    <<"<">> \o node.name
        \o Flatten([i \in 1..Len(node.attributes) |->
                        <<"\n">> \o Spaces(o.tabWidth) \o PrintedAttrs(node, o)[i]])
        \o <<"\n">> \o TagClose(node)

TagDone == pc = "done" /\ arg.kind = "tag" /\ Len(arg.node.attributes) > 0

\* C6: a start tag with attributes is printed with every attribute on its own
\* indented line whenever its approximate length exceeds the effective print
\* width, or two or more attribute values hold a run of six identical symbol
\* characters, or it is self-closing with four or more attributes.
C6_ForcedBreak ==
    (TagDone /\ (\/ Len(OneLine(arg.node, opts)) > EffectiveWidth(opts)
                 \/ RunCount(arg.node) >= 2
                 \/ arg.node.selfClosing /\ Len(arg.node.attributes) >= 4))
        => res.text = BrokenLayout(arg.node, opts)

C6_Witness ==
    /\ TagDone
    /\ arg.node.selfClosing /\ Len(arg.node.attributes) >= 4
    /\ RunCount(arg.node) < 2
    /\ Len(OneLine(arg.node, opts)) <= EffectiveWidth(opts)
    /\ res.text = BrokenLayout(arg.node, opts)

C7_Premise ==
    /\ TagDone
    /\ RunCount(arg.node) <= 1
    /\ ~(arg.node.selfClosing /\ Len(arg.node.attributes) >= 4)

\* C7 as stated: with at most one placeholder-like value, not self-closing with
\* four or more attributes, and a one-line length within the print width, the
\* attributes stay on one line.
C7_StaysOnOneLine ==
    (C7_Premise /\ Len(OneLine(arg.node, opts)) <= EffectiveWidth(opts))
        => res.text = OneLineLayout(arg.node, opts)

\* C7 amended: the same, when the one-line length plus 10 for each
\* placeholder-like value is within the print width.
C7_StaysOnOneLineWithPenalty ==
    (C7_Premise /\
     Len(OneLine(arg.node, opts)) + 10 * RunCount(arg.node) <= EffectiveWidth(opts))
        => res.text = OneLineLayout(arg.node, opts)

C7_Witness ==
    /\ C7_Premise
    /\ RunCount(arg.node) = 1
    /\ Len(OneLine(arg.node, opts)) + 10 <= EffectiveWidth(opts)
    /\ res.text = OneLineLayout(arg.node, opts)

ValueDone == pc = "done" /\ arg.kind = "value" /\ arg.quote # "none"

PreferredQuote(o) == IF o.wxmlSingleQuote THEN SQ ELSE DQ

Delimited(q, c) == <<q>> \o c \o <<q>>

\* C8 as stated: a quoted value with content c comes back as c inside the
\* preferred quote when c does not contain it, inside its own quote otherwise.
C8_QuotePreference ==
    ValueDone =>
        res.text = IF ~Includes(arg.content, <<PreferredQuote(opts)>>)
                   THEN Delimited(PreferredQuote(opts), arg.content)
                   ELSE Delimited(arg.quote, arg.content)

\* C8 amended: what comes back inside the quotes is c with its interpolations
\* normalised.
C8_QuotePreferenceNormalised ==
    ValueDone =>
        res.text = IF ~Includes(arg.content, <<PreferredQuote(opts)>>)
                   THEN Delimited(PreferredQuote(opts),
                                  formatWxmlInterpolations(arg.content))
                   ELSE Delimited(arg.quote, formatWxmlInterpolations(arg.content))

C8_Witness ==
    /\ ValueDone
    /\ arg.quote # PreferredQuote(opts)
    /\ Includes(arg.content, <<PreferredQuote(opts)>>)
    /\ formatWxmlInterpolations(arg.content) # arg.content
    /\ res.text = Delimited(arg.quote, formatWxmlInterpolations(arg.content))

(***************************************************************************)
(* Protection pass and restoration (parser)                                *)
(***************************************************************************)
\* String.prototype.indexOf from a position: the first match at or after i, 0 if none
IndexFrom(s, i, p) ==
    LET M == {k \in i..(Len(s) - Len(p) + 1) : MatchAt(s, k, p)}
    IN  IF M = {} THEN 0 ELSE MinOf(M)

Digits == <<"0", "1", "2", "3", "4", "5", "6", "7", "8", "9">>

RECURSIVE ToStr(_)
\* the decimal text of a natural number
ToStr(n) == IF n < 10 THEN <<Digits[n + 1]>> ELSE ToStr(n \div 10) \o <<Digits[(n % 10) + 1]>>

WxsOpen == <<"<", "w", "x", "s">>
WxsClose == <<"<", "/", "w", "x", "s", ">">>

WxsPlaceholder(n) ==
    <<"_", "_", "W", "X", "S", "_", "C", "O", "N", "T", "E", "N", "T", "_">> \o ToStr(n) \o <<"_", "_">>

TemplatePlaceholder(n) ==
    <<"_", "_", "T", "E", "M", "P", "L", "A", "T", "E", "_", "E", "X", "P", "R", "_">> \o ToStr(n) \o <<"_", "_">>

\* where the script that opens at k closes: the position of its </wxs>, 0 when
\* /(<wxs[^>]*>)([\s\S]*?)(<\/wxs>)/ does not match at k
WxsCloseOf(s, k) ==
    LET g == IF MatchAt(s, k, WxsOpen) THEN IndexFrom(s, k + 4, <<">">>) ELSE 0
    IN  IF g = 0 THEN 0 ELSE IndexFrom(s, g + 1, WxsClose)

RECURSIVE ProtectWxsFrom(_, _, _, _)
\* text.replace(/(<wxs[^>]*>)([\s\S]*?)(<\/wxs>)/g, ...) from position i on
ProtectWxsFrom(s, i, out, items) ==
    LET M == {k \in i..Len(s) : WxsCloseOf(s, k) # 0}
    IN  IF M = {} THEN [text |-> out \o SubSeq(s, i, Len(s)), items |-> items]
        ELSE LET m == MinOf(M)
                 g == IndexFrom(s, m + 4, <<">">>)
                 c == WxsCloseOf(s, m)
             IN  ProtectWxsFrom(s, c + Len(WxsClose),
                     out \o SubSeq(s, i, g) \o WxsPlaceholder(Len(items)) \o WxsClose,
                     Append(items, [placeholder |-> WxsPlaceholder(Len(items)),
                                    content |-> Trim(SubSeq(s, g + 1, c - 1)),
                                    type |-> "WXS_CONTENT"]))

protectWxsContent(text) == ProtectWxsFrom(text, 1, <<>>, <<>>)

\* the template regex matches at i when "{{" is followed by one or more
\* characters other than "}" and then by "}}"
TemplateCloseNaive(s, i) ==
    LET k == IF MatchAt(s, i, <<"{", "{">>) THEN IndexFrom(s, i + 2, <<"}">>) ELSE 0
    IN  IF k > i + 2 /\ MatchAt(s, k, <<"}", "}">>) THEN k ELSE 0

RECURSIVE ProtectTemplatesFrom(_, _, _, _, _)
\* text.replace(/\{\{([^}]+)\}\}/g, ...) from position i on; n is templateIndex
ProtectTemplatesFrom(s, i, out, items, n) ==
    LET M == {k \in i..Len(s) : TemplateCloseNaive(s, k) # 0}
    IN  IF M = {} THEN [text |-> out \o SubSeq(s, i, Len(s)), items |-> items]
        ELSE LET m == MinOf(M)
                 k == TemplateCloseNaive(s, m)
             IN  ProtectTemplatesFrom(s, k + 2,
                     out \o SubSeq(s, i, m - 1) \o TemplatePlaceholder(n),
                     Append(items, [placeholder |-> TemplatePlaceholder(n),
                                    content |-> SubSeq(s, m + 2, k - 1),
                                    type |-> "TEMPLATE_EXPR"]), n + 1)

protectTemplateExpressions(text, items) == ProtectTemplatesFrom(text, 1, <<>>, items, 0)

\* preprocessText with its protectedItems array at module level: the items
\* that the calls so far have pushed are still in it when the next call pushes
preprocessText_ModuleItems(text) ==
    LET w == protectWxsContent(text)
        t == protectTemplateExpressions(w.text, w.items)
        pushed == Flatten([j \in 1..Cardinality(DOMAIN res) |-> res[j].ast.protectedItems])
    IN  [processedText |-> t.text, protectedItems |-> pushed \o t.items]

preprocessText(text) ==
    LET w == protectWxsContent(text)
        t == protectTemplateExpressions(w.text, w.items)
    IN  [processedText |-> t.text, protectedItems |-> t.items]

RECURSIVE ExpandReplacement(_, _, _, _)
\* the replacement patterns of String.prototype.replaceAll with a string
\* replacement: $$ is a dollar sign, $& the match and dollar-apostrophe the
\* text after the match (the texts of the model contain no backtick, so the
\* pattern for the text before the match cannot occur)
ExpandReplacement(r, i, matched, after) ==
    LET M == {k \in i..(Len(r) - 1) : r[k] = "$" /\ r[k + 1] \in {"$", "&", "'"}}
    IN  IF M = {} THEN SubSeq(r, i, Len(r))
        ELSE LET m == MinOf(M) IN
             SubSeq(r, i, m - 1)
                 \o (CASE r[m + 1] = "$" -> <<"$">>
                       [] r[m + 1] = "&" -> matched
                       [] OTHER -> after)
                 \o ExpandReplacement(r, m + 2, matched, after)

RECURSIVE ReplaceAllFrom(_, _, _, _)
ReplaceAllFrom(s, i, p, r) ==
    LET m == IndexFrom(s, i, p) IN
    IF m = 0 THEN SubSeq(s, i, Len(s))
    ELSE SubSeq(s, i, m - 1)
             \o ExpandReplacement(r, 1, p, SubSeq(s, m + Len(p), Len(s)))
             \o ReplaceAllFrom(s, m + Len(p), p, r)

replaceAll(s, p, r) == ReplaceAllFrom(s, 1, p, r)

RestoredText(item) ==
    IF item.type = "WXS_CONTENT" THEN item.content
    ELSE <<"{", "{">> \o item.content \o <<"}", "}">>

RECURSIVE restoreAttributeValue(_, _)
\* the items are applied in the order in which they were recorded
restoreAttributeValue(value, protectedItems) ==
    IF value = NullStr \/ value = <<>> \/ protectedItems = <<>> THEN value
    ELSE LET item == Head(protectedItems)
             next == IF Includes(value, item.placeholder)
                     THEN replaceAll(value, item.placeholder, RestoredText(item))
                     ELSE value
         IN  restoreAttributeValue(next, Tail(protectedItems))

(***************************************************************************)
(* The grammar parser: an external collaborator.  It is handed the         *)
(* protected text and returns the tree of the node kinds the printer       *)
(* switches on; every location is a span [startOffset, endOffset) of the   *)
(* text it was handed.                                                     *)
(***************************************************************************)
NoTag == [type |-> "none"]
ParseFailure == [ok |-> FALSE, nodes |-> <<>>, pos |-> 0]

IsNameChar(c) == c \notin (Ws \cup {"<", ">", "/", "=", DQ, SQ})

SkipName(s, i) == SkipIn(s, i, {c \in Range(s) : IsNameChar(c)})

\* a span [startOffset, endOffset) for the characters i..j (1-based, inclusive)
Loc(i, j) == [startOffset |-> i - 1, endOffset |-> j]

RECURSIVE ParseAttrs(_, _, _)
\* the attributes of a start tag, from position i up to its ">" or "/>"
ParseAttrs(s, i, acc) ==
    LET j == SkipIn(s, i, Ws) IN
    IF MatchAt(s, j, <<"/", ">">>)
    THEN [ok |-> TRUE, nodes |-> acc, pos |-> j + 2, selfClosing |-> TRUE]
    ELSE IF MatchAt(s, j, <<">">>)
    THEN [ok |-> TRUE, nodes |-> acc, pos |-> j + 1, selfClosing |-> FALSE]
    ELSE IF j > Len(s) \/ ~IsNameChar(s[j]) \/ (j = i /\ acc # <<>>)
    THEN [ok |-> FALSE, nodes |-> <<>>, pos |-> 0, selfClosing |-> FALSE]
    ELSE LET k == SkipName(s, j) IN
         IF ~MatchAt(s, k, <<"=">>)
         THEN ParseAttrs(s, k, Append(acc,
                  [type |-> "WXAttribute", key |-> SubSeq(s, j, k - 1),
                   value |-> NullStr, rawValue |-> NullStr, location |-> Loc(j, k - 1)]))
         ELSE LET c == IF k + 1 <= Len(s) /\ s[k + 1] \in {DQ, SQ}
                       THEN IndexFrom(s, k + 2, <<s[k + 1]>>) ELSE 0
              IN  IF c = 0
                  THEN [ok |-> FALSE, nodes |-> <<>>, pos |-> 0, selfClosing |-> FALSE]
                  ELSE ParseAttrs(s, c + 1, Append(acc,
                           [type |-> "WXAttribute", key |-> SubSeq(s, j, k - 1),
                            value |-> SubSeq(s, k + 2, c - 1),
                            rawValue |-> SubSeq(s, k + 1, c), location |-> Loc(j, c)]))

\* the text nodes of the character data i..j: the lexer either keeps a run
\* of character data whole, or gives the white space that begins and ends
\* it nodes of their own
TextNodes(s, i, j, lex) ==
    LET a == SkipIn(SubSeq(s, 1, j), i, Ws)
        b == SkipBack(s, j, Ws)
        T(x, y) == [type |-> "WXText", value |-> SubSeq(s, x, y), location |-> Loc(x, y)]
    IN  IF lex = "whole" \/ a > j THEN <<T(i, j)>>
        ELSE (IF a > i THEN <<T(i, a - 1)>> ELSE <<>>)
             \o <<T(a, b)>>
             \o (IF b < j THEN <<T(b + 1, j)>> ELSE <<>>)

StartTagNode(s, i, name, at) ==
    [type |-> "WXStartTag", name |-> name, attributes |-> at.nodes,
     selfClosing |-> at.selfClosing, location |-> Loc(i, at.pos - 1)]

EndTagNode(name, i, j) == [type |-> "WXEndTag", name |-> name, location |-> Loc(i, j)]

RECURSIVE ParseContent(_, _, _, _)
\* an element whose start tag <name attributes> begins at position i, once
\* its content (inner) has been parsed, and the nodes that follow it
ParseElement(s, i, name, at, inner, acc, lex) ==
    LET closeTag == <<"<", "/">> \o name \o <<">">>
        e == inner.pos + Len(closeTag) - 1
    IN  IF ~inner.ok \/ ~MatchAt(s, inner.pos, closeTag) THEN ParseFailure
        ELSE ParseContent(s, e + 1, Append(acc,
                 [type |-> "WXElement", name |-> name,
                  startTag |-> StartTagNode(s, i, name, at),
                  endTag |-> EndTagNode(name, inner.pos, e),
                  children |-> inner.nodes, location |-> Loc(i, e)]), lex)

\* a wxs element: its content is raw text up to the first closing tag
ParseScript(s, i, name, at, acc, lex) ==
    LET closeTag == <<"<", "/">> \o name \o <<">">>
        c == IF at.selfClosing THEN at.pos ELSE IndexFrom(s, at.pos, closeTag)
    IN  IF c = 0 THEN ParseFailure
        ELSE ParseContent(s, IF at.selfClosing THEN c ELSE c + Len(closeTag),
                 Append(acc,
                     [type |-> "WXScript", name |-> name,
                      startTag |-> StartTagNode(s, i, name, at),
                      endTag |-> IF at.selfClosing THEN NoTag
                                 ELSE EndTagNode(name, c, c + Len(closeTag) - 1),
                      value |-> IF at.selfClosing THEN NullStr
                                ELSE SubSeq(s, at.pos, c - 1),
                      location |-> Loc(i, IF at.selfClosing THEN c - 1
                                     ELSE c + Len(closeTag) - 1)]), lex)

\* the node of the start tag <name attributes> at position i, and the nodes after it
ParseTag(s, i, name, at, acc, lex) ==
    IF name = <<>> \/ ~at.ok THEN ParseFailure
    ELSE IF name = <<"w", "x", "s">> THEN ParseScript(s, i, name, at, acc, lex)
    ELSE IF at.selfClosing
    THEN ParseContent(s, at.pos, Append(acc,
             [type |-> "WXElement", name |-> name,
              startTag |-> StartTagNode(s, i, name, at), endTag |-> NoTag,
              children |-> <<>>, location |-> Loc(i, at.pos - 1)]), lex)
    ELSE ParseElement(s, i, name, at, ParseContent(s, at.pos, <<>>, lex), acc, lex)

\* the nodes from position i up to an end tag or the end of the text
ParseContent(s, i, acc, lex) ==
    IF i > Len(s) \/ MatchAt(s, i, <<"<", "/">>)
    THEN [ok |-> TRUE, nodes |-> acc, pos |-> i]
    ELSE IF MatchAt(s, i, <<"<", "!", "-", "-">>)
    THEN LET c == IndexFrom(s, i + 4, <<"-", "-", ">">>) IN
         IF c = 0 THEN ParseFailure
         ELSE ParseContent(s, c + 3, Append(acc,
                  [type |-> "WXComment", value |-> SubSeq(s, i + 4, c - 1),
                   location |-> Loc(i, c + 2)]), lex)
    ELSE IF s[i] = "<"
    THEN LET n == SkipName(s, i + 1) IN
         ParseTag(s, i, SubSeq(s, i + 1, n - 1), ParseAttrs(s, n, <<>>), acc, lex)
    ELSE LET e == IndexFrom(s, i, <<"<">>)
             j == IF e = 0 THEN Len(s) ELSE e - 1
         IN  ParseContent(s, j + 1, acc \o TextNodes(s, i, j, lex), lex)

RECURSIVE CommentsOf(_)
\* the comments of the tree in document order, as tokens with their full text
CommentsOf(nodes) ==
    IF nodes = <<>> THEN <<>>
    ELSE LET n == Head(nodes) IN
         (IF n.type = "WXComment"
          THEN <<[image |-> <<"<", "!", "-", "-">> \o n.value \o <<"-", "-", ">">>,
                  startOffset |-> n.location.startOffset, endOffset |-> n.location.endOffset]>>
          ELSE IF n.type = "WXElement" THEN CommentsOf(n.children)
          ELSE <<>>) \o CommentsOf(Tail(nodes))

wxmlParse(text, lex) ==
    LET r == ParseContent(text, 1, <<>>, lex) IN
    IF r.ok /\ r.pos > Len(text)
    THEN [ok |-> TRUE, type |-> "Program", body |-> r.nodes, comments |-> CommentsOf(r.nodes),
          location |-> Loc(1, Len(text))]
    ELSE [ok |-> FALSE, type |-> "Program", body |-> <<>>, comments |-> <<>>,
          location |-> Loc(1, 0)]

RECURSIVE RestoreNodes(_, _)
\* restoreProtectedContent on a list of nodes: value and rawValue of every
\* node are restored, whatever its kind, then its sub-nodes
RestoreNodes(nodes, items) ==
    [i \in 1..Len(nodes) |->
        LET n == nodes[i]
            R(v) == restoreAttributeValue(v, items)
            Tag(t) == IF t.type = "WXStartTag"
                      THEN [t EXCEPT !.attributes = RestoreNodes(@, items)] ELSE t
        IN  IF n.type \in {"WXText", "WXComment"} THEN [n EXCEPT !.value = R(@)]
            ELSE IF n.type = "WXAttribute"
            THEN [n EXCEPT !.value = R(@), !.rawValue = R(@)]
            ELSE IF n.type = "WXScript"
            THEN [n EXCEPT !.value = R(@), !.startTag = Tag(@)]
            ELSE IF n.type = "WXElement"
            THEN [n EXCEPT !.startTag = Tag(@), !.children = RestoreNodes(@, items)]
            ELSE n]

\* restoreStringProperty on the image of every comment token
RestoreComments(comments, items) ==
    [i \in 1..Len(comments) |->
        [comments[i] EXCEPT !.image = restoreAttributeValue(@, items)]]

restoreProtectedContent(ast, items) ==
    [ast EXCEPT !.body = RestoreNodes(@, items), !.comments = RestoreComments(@, items)]

\* parser.parse: protect, parse the protected text, restore, attach the comment tokens
parse(text, lex) ==
    LET Restored(p, ast, restored) ==
            [ok |-> ast.ok, type |-> "Program", body |-> restored.body, location |-> ast.location,
             commentTokens |-> restored.comments,
             processedText |-> p.processedText, protectedItems |-> p.protectedItems]
        Parsed(p, ast) == Restored(p, ast, restoreProtectedContent(ast, p.protectedItems))
        Protected(p) == Parsed(p, wxmlParse(p.processedText, lex))
    IN  Protected(preprocessText(text))

(***************************************************************************)
(* Ignore ranges (printer.preprocess)                                      *)
(***************************************************************************)
ignoreStartComment ==
    <<"<", "!", "-", "-", " ", "p", "r", "e", "t", "t", "i", "e", "r", "-", "i", "g", "n",
      "o", "r", "e", "-", "s", "t", "a", "r", "t", " ", "-", "-", ">">>
ignoreEndComment ==
    <<"<", "!", "-", "-", " ", "p", "r", "e", "t", "t", "i", "e", "r", "-", "i", "g", "n",
      "o", "r", "e", "-", "e", "n", "d", " ", "-", "-", ">">>

\* the comment tokens left in the order they were handed over
SortByStart_Unsorted(cs) == cs

RECURSIVE SortByStart(_)
\* commentSource.sort by startOffset (stable insertion)
SortByStart(cs) ==
    IF cs = <<>> THEN <<>>
    ELSE LET rest == SortByStart(Tail(cs))
             k == Cardinality({j \in 1..Len(rest) : rest[j].startOffset < Head(cs).startOffset})
         IN  SubSeq(rest, 1, k) \o <<Head(cs)>> \o SubSeq(rest, k + 1, Len(rest))

RECURSIVE PairRanges(_, _, _)
\* start is -1 while no start marker is open
PairRanges(cs, start, ranges) ==
    IF cs = <<>> THEN ranges
    ELSE IF Head(cs).image = ignoreStartComment
    THEN PairRanges(Tail(cs), Head(cs).startOffset, ranges)
    ELSE IF start # -1 /\ Head(cs).image = ignoreEndComment
    THEN PairRanges(Tail(cs), -1, Append(ranges, [start |-> start, end |-> Head(cs).endOffset]))
    ELSE PairRanges(Tail(cs), start, ranges)

buildIgnoreRanges(commentTokens) == PairRanges(SortByStart(commentTokens), -1, <<>>)

\* the ignore test at the head of printer.print
InIgnoreRange(node, ranges) ==
    \E r \in 1..Len(ranges) :
        node.location.startOffset >= ranges[r].start /\ node.location.endOffset <= ranges[r].end

\* String.prototype.slice(start, end) with 0-based offsets
Slice(s, a, b) ==
    LET lo == IF a > Len(s) THEN Len(s) ELSE a
        hi == IF b > Len(s) THEN Len(s) ELSE b
    IN  SubSeq(s, lo + 1, hi)

(***************************************************************************)
(* Text helpers of the printer                                             *)
(***************************************************************************)
LowerLetters ==
    <<"a", "b", "c", "d", "e", "f", "g", "h", "i", "j", "k", "l", "m", "n", "o", "p", "q",
      "r", "s", "t", "u", "v", "w", "x", "y", "z">>
UpperLetters ==
    <<"A", "B", "C", "D", "E", "F", "G", "H", "I", "J", "K", "L", "M", "N", "O", "P", "Q",
      "R", "S", "T", "U", "V", "W", "X", "Y", "Z">>

\* [0-9A-Za-z_$]
WordChars == Range(LowerLetters) \cup Range(UpperLetters) \cup Range(Digits) \cup {"_", "$"}

\* String.prototype.toLowerCase
toLowerCase(s) ==
    [i \in 1..Len(s) |->
        IF s[i] \in Range(UpperLetters)
        THEN LowerLetters[CHOOSE k \in 1..26 : UpperLetters[k] = s[i]]
        ELSE s[i]]

RECURSIVE SplitFrom(_, _)
SplitFrom(s, i) ==
    LET m == IndexFrom(s, i, <<"\n">>) IN
    IF m = 0 THEN <<SubSeq(s, i, Len(s))>>
    ELSE <<SubSeq(s, i, m - 1)>> \o SplitFrom(s, m + 1)

\* text.split("\n")
SplitLines(s) == SplitFrom(s, 1)

RECURSIVE JoinLines(_)
\* lines.join("\n")
JoinLines(ls) ==
    IF ls = <<>> THEN <<>>
    ELSE IF Len(ls) = 1 THEN Head(ls)
    ELSE Head(ls) \o <<"\n">> \o JoinLines(Tail(ls))

(***************************************************************************)
(* Embedded scripts                                                        *)
(***************************************************************************)
\* The script sub-formatter (Babel parser and generator), an external
\* collaborator: an empty program is generated as the empty text, an
\* expression statement made of one identifier with its semicolon; any other
\* text of the model is a syntax error.
BabelGenerate(jsCode) ==
    LET js == Trim(jsCode)
        body == IF js # <<>> /\ js[Len(js)] = ";" THEN SubSeq(js, 1, Len(js) - 1) ELSE js
    IN  IF js = <<>> THEN [ok |-> TRUE, code |-> <<>>]
        ELSE IF body # <<>> /\ (\A i \in 1..Len(body) : body[i] \in WordChars)
                /\ body[1] \notin Range(Digits)
        THEN [ok |-> TRUE, code |-> body \o <<";">>]
        ELSE [ok |-> FALSE, code |-> <<>>]

RECURSIVE SpaceFunctionParen(_, _)
\* code.replace(/\bfunction\(/g, 'function (') from position i on
SpaceFunctionParen(s, i) ==
    LET M == {k \in i..Len(s) :
                 /\ MatchAt(s, k, <<"f", "u", "n", "c", "t", "i", "o", "n", "(">>)
                 /\ (k = 1 \/ s[k - 1] \notin WordChars)}
    IN  IF M = {} THEN SubSeq(s, i, Len(s))
        ELSE SubSeq(s, i, MinOf(M) - 1)
                 \o <<"f", "u", "n", "c", "t", "i", "o", "n", " ", "(">>
                 \o SpaceFunctionParen(s, MinOf(M) + 9)

\* NullStr stands for the null returned when parsing or generating throws
formatWxsByBabelCompat(jsCode) ==
    LET g == BabelGenerate(jsCode) IN
    IF g.ok THEN TrimEnd(SpaceFunctionParen(g.code, 1)) ELSE NullStr

\* where the simple string literal that opens at i closes, 0 when there is none
SimpleLiteralEnd(s, i, q) ==
    LET k == IF s[i] = q
             THEN SkipIn(s, i + 1, Range(s) \ {DQ, SQ, "\\", "\n", "\r"}) ELSE 0
    IN  IF k # 0 /\ k <= Len(s) /\ s[k] = q THEN k ELSE 0

RECURSIVE EnforceQuotesFrom(_, _, _, _)
\* code.replace(/"([^"'\\\n\r]*)"/g, "'$1'") with from = the double quote and
\* to = the single quote, or the other way round
EnforceQuotesFrom(s, i, from, to) ==
    LET M == {k \in i..Len(s) : SimpleLiteralEnd(s, k, from) # 0}
    IN  IF M = {} THEN SubSeq(s, i, Len(s))
        ELSE LET m == MinOf(M)
                 k == SimpleLiteralEnd(s, m, from)
             IN  SubSeq(s, i, m - 1) \o <<to>> \o SubSeq(s, m + 1, k - 1) \o <<to>>
                     \o EnforceQuotesFrom(s, k + 1, from, to)

enforceWxsStringQuotes(code, useSingleQuote) ==
    IF useSingleQuote THEN EnforceQuotesFrom(code, 1, DQ, SQ)
    ELSE EnforceQuotesFrom(code, 1, SQ, DQ)

indentLines(text, indentSize) ==
    LET ls == SplitLines(text) IN
    JoinLines([i \in 1..Len(ls) |->
                  IF Trim(ls[i]) # <<>> THEN Spaces(indentSize) \o ls[i] ELSE ls[i]])

\* a thrown error travels through the document as an item of its own
Throw(message) == <<[t |-> "throw", s |-> message, ind |-> 0]>>
Threw(doc) == \E i \in 1..Len(doc) : doc[i].t = "throw"

wxsIndentSize(o) ==
    IF o.wxsTabWidth # Undefined THEN o.wxsTabWidth
    ELSE IF o.tabWidth # Undefined /\ o.tabWidth # 0 THEN o.tabWidth ELSE 2

printMisc(node, o) ==
    IF node.type # "WXScript"
    THEN Throw(<<"printMisc received unknown node type", node.type>>)
    ELSE LET tag == node.startTag
             attrText(a) == IF a.value = NullStr THEN a.key
                            ELSE a.key \o <<"=">> \o normalizeAttrValueForWxmlQuotes(a.value, o)
             close == IF node.endTag.type = "WXEndTag"
                      THEN <<"<", "/">> \o node.endTag.name \o <<">">> ELSE <<>>
             Content(quoted) == IF EndsWith(quoted, <<"\n">>) THEN quoted
                                ELSE quoted \o <<"\n">>
             Script(open, formatted) ==
                 IF tag.selfClosing THEN Str(open \o <<" ", "/", ">">>)
                 ELSE IF node.value = NullStr \/ node.value = <<>>
                 THEN Str(open \o <<">">> \o close)
                 ELSE IF formatted = NullStr
                 THEN Throw(<<"Failed to parse/format <wxs> JavaScript">>)
                 ELSE Str(open \o <<">", "\n">>
                              \o indentLines(
                                     Content(enforceWxsStringQuotes(formatted, o.wxsSingleQuote)),
                                     wxsIndentSize(o))
                              \o close)
         IN  Script(<<"<">> \o tag.name
                        \o Flatten([i \in 1..Len(tag.attributes) |->
                                        <<" ">> \o attrText(tag.attributes[i])]),
                    formatWxsByBabelCompat(Trim(node.value)))

\* printCharData that trims the text
printCharData_Trimmed(node) ==
    IF node.value = NullStr THEN <<>>
    ELSE formatWxmlInterpolations(Trim(node.value))

printCharData(node) ==
    IF node.value = NullStr THEN <<>>
    ELSE IF Trim(node.value) = <<>> THEN node.value
    ELSE formatWxmlInterpolations(node.value)

printComment(node) == <<"<", "!", "-", "-">> \o node.value \o <<"-", "-", ">">>

printEndTag(node) == <<"<", "/">> \o node.name \o <<">">>

(***************************************************************************)
(* Elements, the document and the dispatcher                               *)
(***************************************************************************)
isTextNodeType(n) == n.type \in {"WXText", "WXCharData"}
isTextLikeNode(n) == isTextNodeType(n) \/ n.type = "WXInterpolation"

getNodeString(n) ==
    IF isTextNodeType(n) THEN (IF n.value = NullStr THEN <<>> ELSE n.value)
    ELSE IF n.type = "WXInterpolation" /\ n.rawValue # NullStr THEN n.rawValue
    ELSE <<>>

\* totalLen that counts the first child only
SumNodeLen_FirstOnly(ns) == IF ns = <<>> THEN 0 ELSE Len(getNodeString(Head(ns)))

RECURSIVE SumNodeLen(_)
SumNodeLen(ns) == IF ns = <<>> THEN 0 ELSE Len(getNodeString(Head(ns))) + SumNodeLen(Tail(ns))

\* /^[A-Za-z_$][0-9A-Za-z_$]*$/ on the only inner line
isSimpleMustacheIdentifier(innerLines) ==
    /\ Len(innerLines) = 1
    /\ innerLines[1] # <<>>
    /\ innerLines[1][1] \in WordChars \ Range(Digits)
    /\ \A i \in 1..Len(innerLines[1]) : innerLines[1][i] \in WordChars

\* 0-tuple when the printed text is not a multi-line mustache (null in the code)
buildMultiLineMustacheDocFromPrinted(printedText) ==
    LET split == SplitLines(printedText)
        rawLines == [i \in 1..Len(split) |-> Trim(split[i])]
        innerLines == SubSeq(rawLines, 2, Len(rawLines) - 1)
        contentDoc == Flatten([i \in 1..Len(innerLines) |-> hardline \o Str(innerLines[i])])
    IN  IF ~Includes(printedText, <<"\n">>) THEN <<>>
        ELSE IF rawLines[1] # <<"{", "{">> \/ rawLines[Len(rawLines)] # <<"}", "}">> THEN <<>>
        ELSE IF isSimpleMustacheIdentifier(innerLines)
        THEN indent(hardline \o Str(<<"{", "{">>) \o contentDoc)
                 \o hardline \o Str(<<"}", "}">>) \o hardline
        ELSE indent(hardline \o Str(<<"{", "{">>) \o indent(contentDoc)
                        \o hardline \o Str(<<"}", "}">>))
                 \o hardline

\* the children of a non-inline element, one after the other with a line
\* break between them; a text with line breaks becomes its lines
RECURSIVE ChildrenWithBreaks(_, _)
ChildrenWithBreaks(entries, i) ==
    IF i > Len(entries) THEN <<>>
    ELSE (IF i > 1 THEN hardline ELSE <<>>)
         \o (LET e == entries[i] IN
             IF isTextNodeType(e.node) /\ e.isString /\ Includes(e.printed[1].s, <<"\n">>)
             THEN LET lines == SplitLines(e.printed[1].s) IN
                  Flatten([li \in 1..Len(lines) |->
                              (IF li > 1 THEN hardline ELSE <<>>)
                              \o (IF lines[li] # <<>> THEN Str(lines[li]) ELSE <<>>)])
             ELSE e.printed)
         \o ChildrenWithBreaks(entries, i + 1)

RECURSIVE print(_, _)

\* typeof printed === "string": what print returns for the node is a string
PrintsString(node, ctx) ==
    \/ ctx.hasRanges /\ "location" \in DOMAIN node /\ InIgnoreRange(node, ctx.ignoreRanges)
    \/ node.type \in {"WXText", "WXCharData", "WXComment", "WXScript", "WXEndTag",
                      "WXInterpolation"}

printElement(node, ctx) ==
    LET ch == node.children
        child0 == ch[1]
        trimmedLen0 == IF isTextNodeType(child0) /\ child0.value # NullStr
                       THEN Len(Trim(child0.value)) ELSE 0
        singleTextInline ==
            /\ Len(ch) = 1
            /\ isTextNodeType(child0)
            /\ trimmedLen0 > 0
            /\ trimmedLen0 < 50
            /\ ~Includes(child0.value, <<"\n">>)
        onlyTextualChildren == \A i \in 1..Len(ch) : isTextLikeNode(ch[i])
        hasNewline == \E i \in 1..Len(ch) : Includes(getNodeString(ch[i]), <<"\n">>)
        hasMeaningful ==
            \E i \in 1..Len(ch) :
                \/ isTextNodeType(ch[i]) /\ ch[i].value # NullStr /\ Trim(ch[i].value) # <<>>
                \/ ch[i].type = "WXInterpolation"
        smallInlineMix ==
            /\ Len(ch) <= 3
            /\ onlyTextualChildren
            /\ ~hasNewline
            /\ SumNodeLen(ch) < 50
            /\ hasMeaningful
        ShouldInline(lowerName) ==
            /\ singleTextInline \/ smallInlineMix
            /\ lowerName # <<"b", "l", "o", "c", "k">>
            /\ lowerName \notin ctx.opts.wxmlPreferBreakTags
        verbatim(n) ==
            IF isTextNodeType(n) /\ n.value # NullStr THEN Str(n.value)
            ELSE IF n.type = "WXInterpolation" /\ n.rawValue # NullStr THEN Str(n.rawValue)
            ELSE print(n, ctx)
        Kept(shouldInline) ==
            SelectSeq(ch, LAMBDA n :
                shouldInline
                \/ ~(isTextNodeType(n) /\ n.value # NullStr /\ Trim(n.value) = <<>>))
        PrintedAll(kept) ==
            [i \in 1..Len(kept) |->
                [node |-> kept[i], printed |-> print(kept[i], ctx),
                 isString |-> PrintsString(kept[i], ctx)]]
        IsPrinted(e) == e.printed # <<>> /\ e.printed # Str(<<>>)
        MlDoc(entries) ==
            IF Len(entries) = 1 /\ isTextNodeType(entries[1].node) /\ entries[1].isString
            THEN buildMultiLineMustacheDocFromPrinted(entries[1].printed[1].s)
            ELSE <<>>
        Layout(startDoc, endDoc, lowerName, shouldInline, entries, mlDoc) ==
            IF ch = <<>> THEN startDoc \o endDoc
            ELSE IF lowerName = <<"t", "e", "x", "t">>
            THEN startDoc \o Flatten([i \in 1..Len(ch) |-> verbatim(ch[i])]) \o endDoc
            ELSE IF entries = <<>> THEN startDoc \o endDoc
            ELSE IF shouldInline
            THEN startDoc \o Flatten([i \in 1..Len(entries) |-> entries[i].printed]) \o endDoc
            ELSE IF mlDoc # <<>> THEN startDoc \o mlDoc \o endDoc
            ELSE startDoc \o indent(hardline \o ChildrenWithBreaks(entries, 1))
                     \o hardline \o endDoc
        Entries(startDoc, endDoc, lowerName, shouldInline, entries) ==
            Layout(startDoc, endDoc, lowerName, shouldInline, entries, MlDoc(entries))
        Children(startDoc, endDoc, lowerName, shouldInline) ==
            Entries(startDoc, endDoc, lowerName, shouldInline,
                    SelectSeq(PrintedAll(Kept(shouldInline)), IsPrinted))
        Tags(startDoc, endDoc, lowerName) ==
            Children(startDoc, endDoc, lowerName, ShouldInline(lowerName))
    IN  Tags(print(node.startTag, ctx),
             IF node.endTag.type = "WXEndTag" THEN print(node.endTag, ctx) ELSE <<>>,
             toLowerCase(node.startTag.name))

RECURSIVE DocumentParts_BlockOnly(_, _, _, _, _)
\* the body.forEach of printDocument without lastWasBlock: a hardline is
\* pushed in front of a structural node only
DocumentParts_BlockOnly(body, i, parts, lastWasBlock, ctx) ==
    IF i > Len(body) THEN parts
    ELSE LET child == body[i]
             printed == print(child, ctx)
             isBlock == child.type \in {"WXElement", "WXScript", "WXComment"}
         IN  IF isTextNodeType(child) /\ child.value # NullStr /\ Trim(child.value) = <<>>
             THEN DocumentParts_BlockOnly(body, i + 1, parts, lastWasBlock, ctx)
             ELSE IF printed = <<>> \/ printed = Str(<<>>)
             THEN DocumentParts_BlockOnly(body, i + 1, parts, lastWasBlock, ctx)
             ELSE DocumentParts_BlockOnly(body, i + 1,
                      parts \o (IF parts # <<>> /\ isBlock THEN hardline ELSE <<>>) \o printed,
                      isBlock, ctx)

RECURSIVE DocumentParts(_, _, _, _, _)
\* the body.forEach of printDocument from child i on
DocumentParts(body, i, parts, lastWasBlock, ctx) ==
    IF i > Len(body) THEN parts
    ELSE LET child == body[i]
             printed == print(child, ctx)
             isBlock == child.type \in {"WXElement", "WXScript", "WXComment"}
         IN  IF isTextNodeType(child) /\ child.value # NullStr /\ Trim(child.value) = <<>>
             THEN DocumentParts(body, i + 1, parts, lastWasBlock, ctx)
             ELSE IF printed = <<>> \/ printed = Str(<<>>)
             THEN DocumentParts(body, i + 1, parts, lastWasBlock, ctx)
             ELSE DocumentParts(body, i + 1,
                      parts \o (IF parts # <<>> /\ (isBlock \/ lastWasBlock)
                                THEN hardline ELSE <<>>) \o printed,
                      isBlock, ctx)

printDocument(node, ctx) ==
    LET parts == DocumentParts(node.body, 1, <<>>, FALSE, ctx) IN
    IF parts = <<>> THEN <<>> ELSE parts \o hardline

\* printer.print: a node that lies inside an ignore range is the slice of the
\* original text at its offsets; any other node is printed by its kind
print(node, ctx) ==
    IF ctx.hasRanges /\ "location" \in DOMAIN node /\ InIgnoreRange(node, ctx.ignoreRanges)
    THEN Str(Slice(ctx.originalText, node.location.startOffset, node.location.endOffset))
    ELSE CASE node.type = "WXAttribute" -> Str(printAttribute(node, ctx.opts))
           [] node.type \in {"WXCharData", "WXText"} -> Str(printCharData(node))
           [] node.type = "Program" -> printDocument(node, ctx)
           [] node.type = "WXElement" -> printElement(node, ctx)
           [] node.type = "WXComment" -> Str(printComment(node))
           [] node.type = "WXScript" -> printMisc(node, ctx.opts)
           [] node.type = "WXStartTag" -> printStartTag(node, ctx.opts)
           [] node.type = "WXEndTag" -> Str(printEndTag(node))
           [] node.type = "WXInterpolation" ->
                  IF node.rawValue = NullStr \/ node.rawValue = <<>>
                  THEN Throw(<<"WXInterpolation node missing rawValue">>)
                  ELSE Str(node.rawValue)
           [] OTHER -> Throw(<<"Unknown node type", node.type>>)

(***************************************************************************)
(* format: parser.parse, printer.preprocess, printer.print and the         *)
(* renderer, then the same again on the output                             *)
(***************************************************************************)
MaxPieces == 3

OpenV == <<"<", "v", ">">>
CloseV == <<"<", "/", "v", ">">>
WxsX == WxsOpen \o <<">", "x">> \o WxsClose

\* what stands between <v> and </v>
DocPieces == {<<"a">>, <<"\n">>, <<"{", "{">>, <<"}", "}">>, <<"$", "&">>, WxsX}

\* what stands before the element
Leads == {<<>>, OpenV \o <<"{", "{", "a", "}", "}">> \o CloseV}

ElementText(content) == OpenV \o content \o CloseV

DocText(a) ==
    a.lead \o (IF a.ignored THEN ignoreStartComment ELSE <<>>)
           \o ElementText(a.content)
           \o (IF a.ignored THEN ignoreEndComment ELSE <<>>)

DocArgs ==
    {[kind |-> "doc", lead |-> l, ignored |-> g, content |-> Flatten(ps), lex |-> x] :
        l \in Leads, g \in BOOLEAN, ps \in SeqsUpTo(DocPieces, MaxPieces),
        x \in {"whole", "edges"}}

FormatOptions ==
    [wxmlPrintWidth : {Undefined}, printWidth : {80}, wxmlSingleQuote : {FALSE},
     tabWidth : {2}, wxsTabWidth : {Undefined}, wxsSingleQuote : {TRUE},
     wxmlPreferBreakTags : {{}}]

NoAst == [ok |-> FALSE, type |-> "Program", body |-> <<>>, location |-> Loc(1, 0),
          commentTokens |-> <<>>, processedText |-> <<>>, protectedItems |-> <<>>]

InitFormat ==
    /\ pc = "parse"
    /\ arg \in DocArgs
    /\ opts \in FormatOptions
    /\ res = [text |-> DocText(arg), ast |-> NoAst, hasRanges |-> FALSE, ignoreRanges |-> <<>>,
              output |-> <<>>, first |-> <<>>, pass |-> 1]

\* parser.parse on the text; a failure of the grammar parser ends the format
Parse ==
    /\ pc = "parse"
    /\ LET Parsed(ast) ==
               /\ res' = [res EXCEPT !.ast = ast, !.hasRanges = FALSE, !.ignoreRanges = <<>>]
               /\ pc' = IF ast.ok THEN "preprocess" ELSE "failed"
       IN  Parsed(parse(res.text, arg.lex))
    /\ UNCHANGED <<opts, arg>>

\* printer.preprocess: the ignore ranges are built when there are comment tokens
Preprocess ==
    /\ pc = "preprocess"
    /\ res' = IF Len(res.ast.commentTokens) > 0
              THEN [res EXCEPT !.hasRanges = TRUE,
                               !.ignoreRanges = buildIgnoreRanges(res.ast.commentTokens)]
              ELSE res
    /\ pc' = "print"
    /\ UNCHANGED <<opts, arg>>

PrintContext ==
    [opts |-> opts, hasRanges |-> res.hasRanges, ignoreRanges |-> res.ignoreRanges,
     originalText |-> res.text]

\* printer.print on the root and the rendering of its document; a thrown
\* error ends the format without output
PrintAst ==
    /\ pc = "print"
    /\ LET Printed(d) ==
               IF Threw(d)
               THEN pc' = "failed" /\ res' = res
               ELSE pc' = "done" /\ res' = [res EXCEPT !.output = Render(d, opts.tabWidth)]
       IN  Printed(print(res.ast, PrintContext))
    /\ UNCHANGED <<opts, arg>>

\* the output of the first format is formatted again
Reformat ==
    /\ pc = "done"
    /\ res.pass = 1
    /\ res' = [res EXCEPT !.text = res.output, !.first = res.output, !.pass = 2,
                          !.output = <<>>]
    /\ pc' = "parse"
    /\ UNCHANGED <<opts, arg>>

NextFormat == Parse \/ Preprocess \/ PrintAst \/ Reformat

SpecFormat == InitFormat /\ [][NextFormat]_vars

(***************************************************************************)
(* Claims about format                                                     *)
(***************************************************************************)
FirstFormatDone == pc = "done" /\ res.pass = 1
SecondFormatEnded == pc \in {"done", "failed"} /\ res.pass = 2

\* C1 as stated: formatting the output of a successful format again, with the
\* same options, succeeds and yields the same bytes.
C1_Idempotent ==
    SecondFormatEnded => (pc = "done" /\ res.output = res.first)

PlaceholderPrefixes ==
    {<<"_", "_", "W", "X", "S", "_", "C", "O", "N", "T", "E", "N", "T", "_">>,
     <<"_", "_", "T", "E", "M", "P", "L", "A", "T", "E", "_", "E", "X", "P", "R", "_">>}

\* C2 as stated: no placeholder token occurs in the output of a format (the
\* inputs of the first format contain no underscore).
C2_NoPlaceholderInOutput ==
    FirstFormatDone => \A p \in PlaceholderPrefixes : ~Includes(res.output, p)

\* C3 as stated: the output contains the bytes of the source from the first
\* byte of the start marker to the last byte of the end marker, unchanged.
C3_IgnoredRegionKept ==
    (FirstFormatDone /\ arg.ignored)
        => Includes(res.output,
                    ignoreStartComment \o ElementText(arg.content) \o ignoreEndComment)

(***************************************************************************)
(* The protection pass on its own                                          *)
(***************************************************************************)
MaxBraces == 5

BracePieces == {<<"{", "{">>, <<"}", "}">>, <<"{">>, <<"}">>, <<"a">>, <<" ">>}

ProtectArgs ==
    {[kind |-> "text", text |-> Flatten(ps)] : ps \in SeqsUpTo(BracePieces, MaxBraces)}

NoProtection == [processedText |-> <<>>, protectedItems |-> <<>>]

InitProtect ==
    /\ pc = "ready"
    /\ arg \in ProtectArgs
    /\ opts \in FormatOptions
    /\ res = NoProtection

\* preprocessText on the text
PreprocessText ==
    /\ pc = "ready"
    /\ res' = preprocessText(arg.text)
    /\ pc' = "done"
    /\ UNCHANGED <<opts, arg>>

NextProtect == PreprocessText

SpecProtect == InitProtect /\ [][NextProtect]_vars

RECURSIVE BalancedCloseFrom(_, _, _)
\* the scan the specification asks for: from position k with the given depth,
\* every "{" adds one, every "}" takes one away, and the scan stops at the
\* depth-zero "}" that is followed by a second "}" (0 when there is none)
BalancedCloseFrom(s, k, depth) ==
    IF k >= Len(s) THEN 0
    ELSE IF s[k] = "{" THEN BalancedCloseFrom(s, k + 1, depth + 1)
    ELSE IF s[k] = "}"
    THEN IF depth = 0 THEN (IF s[k + 1] = "}" THEN k ELSE 0)
         ELSE BalancedCloseFrom(s, k + 1, depth - 1)
    ELSE BalancedCloseFrom(s, k + 1, depth)

\* the text is one interpolation whose body has nested, balanced braces
OneNestedInterpolation(s) ==
    /\ StartsWith(s, <<"{", "{">>)
    /\ BalancedCloseFrom(s, 3, 0) = Len(s) - 1
    /\ Includes(SubSeq(s, 3, Len(s) - 2), <<"{">>)

\* C4 as stated: an interpolation whose body has nested, balanced braces is
\* captured whole by the protection pass, from its "{{" to the depth-zero "}"
\* that is followed by a second "}".
C4_BalancedCapture ==
    (pc = "done" /\ arg.kind = "text" /\ OneNestedInterpolation(arg.text))
        => /\ res.processedText = TemplatePlaceholder(0)
           /\ Len(res.protectedItems) = 1
           /\ res.protectedItems[1].content = SubSeq(arg.text, 3, Len(arg.text) - 2)

(***************************************************************************)
(* parser.parse of the xml-tools variant: protection with boolean          *)
(* attributes, the root wrapper, the single-root grammar, restoration and  *)
(* unwrapping                                                              *)
(***************************************************************************)
BooleanPlaceholder(n) ==
    <<"_", "_", "B", "O", "O", "L", "E", "A", "N", "_", "A", "T", "T", "R", "_">>
        \o ToStr(n) \o <<"_", "_">>

rootName == <<"_", "_", "w", "x", "m", "l", "_", "r", "o", "o", "t", "_", "_">>

Letters == Range(LowerLetters) \cup Range(UpperLetters)
AttrNameChars == Letters \cup Range(Digits) \cup {"-"}

\* \s+([a-zA-Z][a-zA-Z0-9-]*) at m: the position after the name, 0 when it
\* does not match
BoolNameEnd(s, m) ==
    LET j == SkipIn(s, m, Ws) IN
    IF m <= Len(s) /\ s[m] \in Ws /\ j <= Len(s) /\ s[j] \in Letters
    THEN SkipIn(s, j, AttrNameChars) ELSE 0

\* the lookahead (?=\s*[/>]) when closing, (?=\s+[a-zA-Z][a-zA-Z0-9-]*=) otherwise
BoolLookahead(s, k, closing) ==
    LET j == SkipIn(s, k, Ws) IN
    IF closing THEN j <= Len(s) /\ s[j] \in {"/", ">"}
    ELSE /\ j > k
         /\ j <= Len(s)
         /\ s[j] \in Letters
         /\ MatchAt(s, SkipIn(s, j, AttrNameChars), <<"=">>)

RECURSIVE ProtectBooleansFrom(_, _, _, _, _, _)
\* one of the two replace calls for boolean attributes, from position i on;
\* n is booleanIndex
ProtectBooleansFrom(s, i, out, items, n, closing) ==
    LET M == {m \in i..Len(s) :
                 BoolNameEnd(s, m) # 0 /\ BoolLookahead(s, BoolNameEnd(s, m), closing)}
    IN  IF M = {} THEN [text |-> out \o SubSeq(s, i, Len(s)), items |-> items, n |-> n]
        ELSE LET m == MinOf(M)
                 k == BoolNameEnd(s, m)
                 attrName == SubSeq(s, SkipIn(s, m, Ws), k - 1)
             IN  ProtectBooleansFrom(s, k,
                     out \o SubSeq(s, i, m - 1) \o <<" ">> \o attrName
                         \o <<"=", DQ>> \o BooleanPlaceholder(n) \o <<DQ>>,
                     Append(items, [placeholder |-> BooleanPlaceholder(n),
                                    content |-> attrName, original |-> attrName,
                                    type |-> "BOOLEAN_ATTR"]),
                     n + 1, closing)

\* the items of this variant also keep the matched text
WithOriginals(items) ==
    [i \in 1..Len(items) |->
        [placeholder |-> items[i].placeholder,
         content |-> Trim(items[i].content),
         original |-> IF items[i].type = "TEMPLATE_EXPR"
                      THEN <<"{", "{">> \o items[i].content \o <<"}", "}">>
                      ELSE items[i].content,
         type |-> items[i].type]]

preprocessTemplateExpressions(text) ==
    LET Result(b2) == [processedText |-> b2.text, protectedItems |-> b2.items]
        Opening(b1) == Result(ProtectBooleansFrom(b1.text, 1, <<>>, b1.items, b1.n, FALSE))
        Closing(p) == Opening(ProtectBooleansFrom(p.processedText, 1, <<>>,
                                                  WithOriginals(p.protectedItems), 0, TRUE))
    IN  Closing(preprocessText(text))

RECURSIVE ScanRoots(_, _, _, _, _)
\* the loop of hasMultipleRoots from position i on, taken from one character
\* that matters (a quote, "<" or ">") to the next; the result is firstRootEnd
\* (0 for the -1 of the code)
ScanRoots(s, i, depth, inTag, firstRootEnd) ==
    LET j == SkipIn(s, i, Range(s) \ {"<", ">", DQ, SQ}) IN
    IF j > Len(s) THEN firstRootEnd
    ELSE IF s[j] \in {DQ, SQ}
    THEN LET C == {k \in (j + 1)..Len(s) : s[k] = s[j] /\ s[k - 1] # "\\"} IN
         IF C = {} THEN firstRootEnd
         ELSE ScanRoots(s, MinOf(C) + 1, depth, inTag, firstRootEnd)
    ELSE IF s[j] = "<"
    THEN ScanRoots(s, j + 1,
                   IF MatchAt(s, j + 1, <<"/">>) THEN depth - 1
                   ELSE IF j < Len(s) /\ s[j + 1] \in {"!", "?"} THEN depth
                   ELSE depth + 1,
                   TRUE, firstRootEnd)
    ELSE IF inTag
    THEN LET d == IF j > 1 /\ s[j - 1] = "/" THEN depth - 1 ELSE depth IN
         ScanRoots(s, j + 1, d, FALSE, IF d = 0 /\ firstRootEnd = 0 THEN j ELSE firstRootEnd)
    ELSE ScanRoots(s, j + 1, depth, inTag, firstRootEnd)

hasMultipleRoots(text) ==
    LET Rest(trimmed, firstRootEnd, remaining) ==
            /\ StartsWith(trimmed, <<"<">>)
            /\ firstRootEnd # 0
            /\ remaining # <<>>
            /\ StartsWith(remaining, <<"<">>)
        First(trimmed, firstRootEnd) ==
            Rest(trimmed, firstRootEnd, Trim(SubSeq(trimmed, firstRootEnd + 1, Len(trimmed))))
        Scan(trimmed) == First(trimmed, ScanRoots(trimmed, 1, 0, FALSE, 0))
    IN  Scan(Trim(text))

\* String.prototype.replace with a string pattern: the first occurrence only
replaceFirst(s, p, r) ==
    LET m == IndexFrom(s, 1, p) IN
    IF m = 0 THEN s
    ELSE SubSeq(s, 1, m - 1) \o ExpandReplacement(r, 1, p, SubSeq(s, m + Len(p), Len(s)))
             \o SubSeq(s, m + Len(p), Len(s))

RECURSIVE RestoreXmlString(_, _, _)
\* the forEach over the protected items on a TEXT (isString FALSE) or on the
\* STRING of an attribute (isString TRUE), which a boolean placeholder nulls
RestoreXmlString(v, items, isString) ==
    IF v = NullStr \/ v = <<>> \/ items = <<>> THEN v
    ELSE LET item == Head(items)
             next == IF ~Includes(v, item.placeholder) THEN v
                     ELSE IF item.type = "WXS_CONTENT"
                     THEN replaceFirst(v, item.placeholder, item.content)
                     ELSE IF item.type = "TEMPLATE_EXPR"
                     THEN replaceFirst(v, item.placeholder, item.original)
                     ELSE IF isString THEN NullStr ELSE v
         IN  RestoreXmlString(next, Tail(items), isString)

RECURSIVE RestoreXmlNodes(_, _)
RestoreXmlNodes(nodes, items) ==
    [i \in 1..Len(nodes) |->
        LET n == nodes[i]
            Attr(a) == LET str == RestoreXmlString(a.rawValue, items, TRUE) IN
                       [a EXCEPT !.rawValue = str,
                                 !.value = IF str = NullStr THEN NullStr
                                           ELSE SubSeq(str, 2, Len(str) - 1)]
            Tag(t) == [t EXCEPT !.attributes = [k \in 1..Len(@) |-> Attr(@[k])]]
        IN  IF n.type = "WXText" THEN [n EXCEPT !.value = RestoreXmlString(@, items, FALSE)]
            ELSE IF n.type = "WXScript"
            THEN [n EXCEPT !.value = RestoreXmlString(@, items, FALSE), !.startTag = Tag(@)]
            ELSE IF n.type = "WXElement"
            THEN [n EXCEPT !.startTag = Tag(@), !.children = RestoreXmlNodes(@, items)]
            ELSE n]

\* The grammar parser of this variant, an external collaborator: the same
\* grammar, with the single-root constraint of XML (one element at the top
\* level, with nothing but comments and white space around it)
xmlToolsParse(text, lex) ==
    LET IsElement(n) == n.type \in {"WXElement", "WXScript"}
        IsComment(n) == n.type = "WXComment"
        Stray(top) == \E i \in 1..Len(top) :
                          top[i].type = "WXText" /\ Trim(top[i].value) # <<>>
        Top(r, elements) ==
            IF r.ok /\ r.pos > Len(text) /\ Len(elements) = 1 /\ ~Stray(r.nodes)
            THEN [ok |-> TRUE, element |-> elements, misc |-> SelectSeq(r.nodes, IsComment)]
            ELSE [ok |-> FALSE, element |-> <<>>, misc |-> <<>>]
        Parsed(r) == Top(r, SelectSeq(r.nodes, IsElement))
    IN  Parsed(ParseContent(text, 1, <<>>, lex))

\* parser.parse with the root wrapper: any error is thrown again as a failure
parseWithRootWrapper(text, lex) ==
    LET IsElement(n) == n.type \in {"WXElement", "WXScript"}
        IsComment(n) == n.type = "WXComment"
        Unwrapped(needsUnwrapping, cst, element) ==
            IF ~cst.ok
            THEN [ok |-> FALSE, element |-> <<>>, misc |-> <<>>, wrapped |-> needsUnwrapping]
            ELSE IF needsUnwrapping /\ element[1].name = rootName
            THEN [ok |-> TRUE,
                  element |-> SelectSeq(element[1].children, IsElement),
                  misc |-> cst.misc \o SelectSeq(element[1].children, IsComment),
                  wrapped |-> TRUE]
            ELSE [ok |-> TRUE, element |-> element, misc |-> cst.misc,
                  wrapped |-> needsUnwrapping]
        Restored(p, needsUnwrapping, cst) ==
            Unwrapped(needsUnwrapping, cst, RestoreXmlNodes(cst.element, p.protectedItems))
        Wrapped(p, needsUnwrapping) ==
            Restored(p, needsUnwrapping,
                     xmlToolsParse(IF needsUnwrapping
                                   THEN <<"<">> \o rootName \o <<">">> \o p.processedText
                                            \o <<"<", "/">> \o rootName \o <<">">>
                                   ELSE p.processedText, lex))
        Protected(p) == Wrapped(p, hasMultipleRoots(p.processedText))
    IN  Protected(preprocessTemplateExpressions(text))

(***************************************************************************)
(* Root wrapping: the inputs are sequences of top-level elements           *)
(***************************************************************************)
MaxRoots == 3

RootPool ==
    {[name |-> <<"a">>, text |-> <<"<", "a", "/", ">">>],
     [name |-> <<"b">>, text |-> <<"<", "b", ">", "<", "/", "b", ">">>],
     [name |-> <<"a">>, text |-> <<"<", "a", ">", "x", "<", "/", "a", ">">>],
     [name |-> <<"c">>, text |-> <<"<", "c", ">", SQ, "<", "/", "c", ">">>],
     [name |-> <<"b">>, text |-> <<"<", "b", " ", "c", "=", DQ, "d", DQ, "/", ">">>],
     [name |-> <<"a">>, text |-> <<"<", "a", " ", "h", "/", ">">>],
     [name |-> <<"c">>, text |-> <<"<", "c", ">", "<", "b", "/", ">", "<", "/", "c", ">">>]}

RootArgs ==
    {[kind |-> "roots", roots |-> rs, lex |-> x] :
        rs \in SeqsUpTo(RootPool, MaxRoots) \ {<<>>}, x \in {"whole", "edges"}}

RootsText(a) == Flatten([i \in 1..Len(a.roots) |-> a.roots[i].text])

NoTree == [ok |-> FALSE, element |-> <<>>, misc |-> <<>>, wrapped |-> FALSE]

InitRoot ==
    /\ pc = "ready"
    /\ arg \in RootArgs
    /\ opts \in FormatOptions
    /\ res = NoTree

\* parser.parse (xml-tools variant) on the text of the top-level elements
ParseWithRootWrapper ==
    /\ pc = "ready"
    /\ LET ast == parseWithRootWrapper(RootsText(arg), arg.lex)
       IN  res' = ast /\ pc' = IF ast.ok THEN "done" ELSE "failed"
    /\ UNCHANGED <<opts, arg>>

NextRoot == ParseWithRootWrapper

SpecRoot == InitRoot /\ [][NextRoot]_vars

RECURSIVE NamesIn(_)
\* the names of the elements of a tree
NamesIn(nodes) ==
    IF nodes = <<>> THEN {}
    ELSE (IF Head(nodes).type = "WXElement"
          THEN {Head(nodes).name} \cup NamesIn(Head(nodes).children)
          ELSE IF Head(nodes).type = "WXScript" THEN {Head(nodes).name} ELSE {})
         \cup NamesIn(Tail(nodes))

\* C5 as stated, for the parse result: an input of n >= 2 top-level elements
\* parses to those n elements as siblings in source order, and the synthetic
\* root name appears nowhere in the tree.
C5_MultiRoot ==
    (pc \in {"done", "failed"} /\ arg.kind = "roots" /\ Len(arg.roots) >= 2)
        => /\ pc = "done"
           /\ [i \in 1..Len(res.element) |-> res.element[i].name]
                  = [i \in 1..Len(arg.roots) |-> arg.roots[i].name]
           /\ rootName \notin NamesIn(res.element)

(***************************************************************************)
(* Embedded scripts: printMisc and the embed hook                          *)
(***************************************************************************)
MaxChardata == 2

\* the character data nodes of a script container
ScriptPieces == {<<"x">>, <<" ", "x", ";">>, <<"=">>, <<"(", "a">>, <<"\n">>}

ScriptArgs ==
    {[kind |-> "script", chardata |-> cd] :
        cd \in SeqsUpTo(ScriptPieces, MaxChardata) \ {<<>>}}

ScriptOptions ==
    [wxmlPrintWidth : {Undefined}, printWidth : {80}, wxmlSingleQuote : {FALSE},
     tabWidth : {2}, wxsTabWidth : {Undefined, 4}, wxsSingleQuote : {TRUE},
     wxmlPreferBreakTags : {{}}]

NoScriptResult == [by |-> "none", threw |-> FALSE, message |-> <<>>, text |-> <<>>]

\* the script body in document order
ScriptBody(a) == Flatten(a.chardata)

ScriptNode(a) ==
    [type |-> "WXScript", name |-> <<"w", "x", "s">>,
     startTag |-> [type |-> "WXStartTag", name |-> <<"w", "x", "s">>, attributes |-> <<>>,
                   selfClosing |-> FALSE, location |-> Loc(1, 5)],
     endTag |-> EndTagNode(<<"w", "x", "s">>, 6 + Len(ScriptBody(a)), 11 + Len(ScriptBody(a))),
     value |-> ScriptBody(a), location |-> Loc(1, 11 + Len(ScriptBody(a)))]

InitScript ==
    /\ pc = "ready"
    /\ arg \in ScriptArgs
    /\ opts \in ScriptOptions
    /\ res = NoScriptResult

ResultOf(by, d) ==
    IF Threw(d)
    THEN [by |-> by, threw |-> TRUE,
          message |-> d[CHOOSE i \in 1..Len(d) : d[i].t = "throw"].s, text |-> <<>>]
    ELSE [by |-> by, threw |-> FALSE, message |-> <<>>, text |-> Render(d, opts.tabWidth)]

\* printMisc on the script container
PrintMisc ==
    /\ pc = "ready"
    /\ arg.kind = "script"
    /\ LET d == printMisc(ScriptNode(arg), opts)
       IN  res' = ResultOf("printMisc", d)
    /\ pc' = "done"
    /\ UNCHANGED <<opts, arg>>

\* getSource: the images of the character data, sorted with a comparator
\* that returns the offset of its first argument; with two or more nodes the
\* comparator is not consistent and the order is the engine's choice, given
\* here as the permutation order
getSource(chardata, order) == Flatten([i \in 1..Len(chardata) |-> chardata[order[i]]])

\* the body of the function that embed returns; the open tag is a group of
\* its own, so its softline stays flat
embed(chardata, order, o) ==
    LET openTag == Str(<<"<", "w", "x", "s", ">">>)
        closeTag == Str(<<"<", "/", "w", "x", "s", ">">>)
        source == getSource(chardata, order)
        docNode == BabelGenerate(source)
        split == SplitLines(source)
        trimmed == [i \in 1..Len(split) |-> Trim(split[i])]
        lines == SelectSeq(trimmed, LAMBDA l : l # <<>>)
        indentedLines == [i \in 1..Len(lines) |-> <<" ", " ">> \o lines[i]]
    IN  IF ~docNode.ok
        THEN openTag \o hardline \o Str(JoinLines(indentedLines)) \o hardline \o closeTag
        ELSE IF docNode.code = <<>>
        THEN openTag \o literalline \o indent(Str(source)) \o hardline \o closeTag
        ELSE openTag \o indent(hardline \o Str(docNode.code)) \o hardline \o closeTag

\* the embed hook on the script container
Embed ==
    /\ pc = "ready"
    /\ arg.kind = "script"
    /\ \E order \in Permutations(1..Len(arg.chardata)) :
           res' = [by |-> "embed", threw |-> FALSE, message |-> <<>>,
                   text |-> Render(embed(arg.chardata, order, opts), opts.tabWidth)]
    /\ pc' = "done"
    /\ UNCHANGED <<opts, arg>>

NextScript == PrintMisc \/ Embed

SpecScript == InitScript /\ [][NextScript]_vars

\* C9 as stated: a non-empty script body that the sub-formatter cannot parse
\* or generate makes the format fail with "Failed to parse/format <wxs>
\* JavaScript" and no output, on every code path.
C9_UniformHardFailure ==
    (pc = "done" /\ arg.kind = "script" /\ Trim(ScriptBody(arg)) # <<>>
     /\ ~BabelGenerate(ScriptBody(arg)).ok)
        => /\ res.threw
           /\ res.message = <<"Failed to parse/format <wxs> JavaScript">>
           /\ res.text = <<>>

(***************************************************************************)
(* printer.print on one node                                               *)
(***************************************************************************)
KnownKinds ==
    {"WXAttribute", "WXCharData", "Program", "WXElement", "WXComment", "WXScript",
     "WXStartTag", "WXEndTag", "WXText", "WXInterpolation"}

SampleText == OpenV \o <<"{", "{", "a", "}", "}">> \o CloseV

\* leaf nodes of known and of unknown kinds, with and without a location
NodeSamples ==
    LET fields == [type : {"WXText", "WXComment", "WXEndTag", "WXInterpolation",
                           "WXDirective", "WXCData"},
                   name : {<<"v">>}, value : {<<"a">>},
                   rawValue : {NullStr, <<"{", "{", "a", "}", "}">>},
                   image : {NullStr, <<"a">>}]
    IN  fields \cup
        {[type |-> f.type, name |-> f.name, value |-> f.value, rawValue |-> f.rawValue,
          image |-> f.image, location |-> l] :
            f \in fields, l \in {[startOffset |-> 3, endOffset |-> 8],
                                 [startOffset |-> 0, endOffset |-> 12]}}

NodeArgs ==
    {[kind |-> "node", node |-> n, hasRanges |-> h,
      ignoreRanges |-> IF h THEN <<[start |-> 3, end |-> 8]>> ELSE <<>>] :
        n \in NodeSamples, h \in BOOLEAN}

NodeContext(a) ==
    [opts |-> opts, hasRanges |-> a.hasRanges, ignoreRanges |-> a.ignoreRanges,
     originalText |-> SampleText]

\* printCharData of the earlier variant
printCharDataEarlier(node) ==
    IF node.value = NullStr \/ node.value = <<>> THEN <<>>
    ELSE IF Trim(node.value) = <<>> THEN <<>>
    ELSE Trim(formatWxmlInterpolations(node.value))

\* printer.print of the earlier variant, for leaf nodes: the same ignore
\* test, and a default branch that returns node.image || ""
printEarlier(node, ctx) ==
    IF ctx.hasRanges /\ "location" \in DOMAIN node /\ InIgnoreRange(node, ctx.ignoreRanges)
    THEN Str(Slice(ctx.originalText, node.location.startOffset, node.location.endOffset))
    ELSE CASE node.type \in {"WXCharData", "WXText"} -> Str(printCharDataEarlier(node))
           [] node.type = "WXComment" -> Str(printComment(node))
           [] node.type = "WXEndTag" -> Str(printEndTag(node))
           [] node.type \notin KnownKinds \ {"WXInterpolation"} ->
                  Str(IF node.image = NullStr THEN <<>> ELSE node.image)

InitPrint ==
    /\ pc = "ready"
    /\ arg \in NodeArgs
    /\ opts \in FormatOptions
    /\ res = NoScriptResult

\* printer.print on the node
PrintNode ==
    /\ pc = "ready"
    /\ arg.kind = "node"
    /\ res' = ResultOf("print", print(arg.node, NodeContext(arg)))
    /\ pc' = "done"
    /\ UNCHANGED <<opts, arg>>

\* printer.print of the earlier variant on the node
PrintNodeEarlier ==
    /\ pc = "ready"
    /\ arg.kind = "node"
    /\ res' = ResultOf("printEarlier", printEarlier(arg.node, NodeContext(arg)))
    /\ pc' = "done"
    /\ UNCHANGED <<opts, arg>>

NextPrint == PrintNode \/ PrintNodeEarlier

SpecPrint == InitPrint /\ [][NextPrint]_vars

UnprintableNode(n) ==
    \/ n.type \notin KnownKinds
    \/ n.type = "WXInterpolation" /\ n.rawValue = NullStr

\* C10 as stated: print on a node of an unknown kind, or on an interpolation
\* without its raw value, throws an error that names the kind and returns no
\* output, also when the node lies inside an ignore range.
C10_UnknownKindFatal ==
    (pc = "done" /\ arg.kind = "node" /\ UnprintableNode(arg.node))
        => /\ res.threw
           /\ res.text = <<>>
           /\ \/ res.message = <<"Unknown node type", arg.node.type>>
              \/ res.message = <<"WXInterpolation node missing rawValue">>

(***************************************************************************)
(* Two format invocations at once.  An invocation is suspended between     *)
(* parser.parse, printer.preprocess, printer.print and the rendering of    *)
(* its document; the options objects are shared by reference, and each     *)
(* invocation has a tree of its own.                                       *)
(***************************************************************************)
Invocations == {1, 2}

\* the options objects the invocations are handed a reference to
OptionRefs == {1, 2}

ConcurrentOptions ==
    [wxmlPrintWidth : {Undefined}, printWidth : {80}, wxmlSingleQuote : {FALSE},
     tabWidth : {2, 4}, wxsTabWidth : {Undefined}, wxsSingleQuote : {TRUE},
     wxmlPreferBreakTags : {{}}]

ConcurrentTexts ==
    {ElementText(<<"{", "{", "a", "}", "}">>),
     ElementText(<<"a", "{", "{", "x", "}", "}", "\n", "{", "{", "a", "}", "}">>),
     ignoreStartComment \o ElementText(<<"a">>) \o ignoreEndComment,
     ElementText(WxsX),
     ElementText(<<"a", "\n", "a">>),
     OpenV}

\* one format run from its first step to its last, with nothing in between
formatAlone(text, lex, o) ==
    LET Rendered(d) ==
            IF Threw(d) THEN [ok |-> FALSE, output |-> <<>>]
            ELSE [ok |-> TRUE, output |-> Render(d, o.tabWidth)]
        Ranged(ast, hasRanges) ==
            Rendered(print(ast, [opts |-> o, hasRanges |-> hasRanges,
                                 ignoreRanges |-> IF hasRanges
                                                  THEN buildIgnoreRanges(ast.commentTokens)
                                                  ELSE <<>>,
                                 originalText |-> text]))
        Parsed(ast) ==
            IF ~ast.ok THEN [ok |-> FALSE, output |-> <<>>]
            ELSE Ranged(ast, Len(ast.commentTokens) > 0)
    IN  Parsed(parse(text, lex))

\* the texts and options of the two invocations, with what each invocation
\* returns when it is the only one to run
ConcurrentArgs ==
    {[kind |-> "concurrent", lex |-> x, heap |-> h,
      of |-> [i \in Invocations |-> [text |-> t[i], options |-> r[i]]],
      alone |-> [i \in Invocations |-> formatAlone(t[i], x, h[r[i]])]] :
        x \in {"whole", "edges"}, h \in [OptionRefs -> ConcurrentOptions],
        t \in [Invocations -> ConcurrentTexts], r \in [Invocations -> OptionRefs]}

NoRun == [ast |-> NoAst, hasRanges |-> FALSE, ignoreRanges |-> <<>>, doc |-> <<>>,
          output |-> <<>>]

InitConcurrent ==
    /\ pc = [i \in Invocations |-> "parse"]
    /\ res = [i \in Invocations |-> NoRun]
    /\ arg \in ConcurrentArgs
    /\ opts = arg.heap

\* parser.parse of invocation i
ParseOf(i) ==
    /\ pc[i] = "parse"
    /\ LET Parsed(ast) ==
               /\ res' = [res EXCEPT ![i].ast = ast]
               /\ pc' = [pc EXCEPT ![i] = IF ast.ok THEN "preprocess" ELSE "failed"]
       IN  Parsed(parse(arg.of[i].text, arg.lex))
    /\ UNCHANGED <<opts, arg>>

\* printer.preprocess of invocation i: the ranges are written on its own tree
PreprocessOf(i) ==
    /\ pc[i] = "preprocess"
    /\ res' = IF Len(res[i].ast.commentTokens) > 0
              THEN [res EXCEPT ![i].hasRanges = TRUE,
                               ![i].ignoreRanges = buildIgnoreRanges(res[i].ast.commentTokens)]
              ELSE res
    /\ pc' = [pc EXCEPT ![i] = "print"]
    /\ UNCHANGED <<opts, arg>>

\* printer.print of invocation i on its root, with the options it was handed
PrintOf(i) ==
    /\ pc[i] = "print"
    /\ LET Printed(d) ==
               IF Threw(d)
               THEN pc' = [pc EXCEPT ![i] = "failed"] /\ res' = res
               ELSE pc' = [pc EXCEPT ![i] = "render"] /\ res' = [res EXCEPT ![i].doc = d]
       IN  Printed(print(res[i].ast,
                         [opts |-> opts[arg.of[i].options], hasRanges |-> res[i].hasRanges,
                          ignoreRanges |-> res[i].ignoreRanges,
                          originalText |-> arg.of[i].text]))
    /\ UNCHANGED <<opts, arg>>

\* the rendering of the document of invocation i
RenderOf(i) ==
    /\ pc[i] = "render"
    /\ res' = [res EXCEPT ![i].output = Render(res[i].doc, opts[arg.of[i].options].tabWidth)]
    /\ pc' = [pc EXCEPT ![i] = "done"]
    /\ UNCHANGED <<opts, arg>>

NextConcurrent ==
    \E i \in Invocations : ParseOf(i) \/ PreprocessOf(i) \/ PrintOf(i) \/ RenderOf(i)

SpecConcurrent == InitConcurrent /\ [][NextConcurrent]_vars

MaxTop == 3

CommentC == <<"<", "!", "-", "-", "c", "-", "-", ">">>

TopPieces == {ElementText(<<>>), ElementText(<<"a">>), CommentC, WxsX, <<"a">>, <<" ">>, <<"\n">>}

TopArgs ==
    {[kind |-> "top", pieces |-> ps, lex |-> x] :
        ps \in SeqsUpTo(TopPieces, MaxTop), x \in {"whole", "edges"}}

InitDocument ==
    /\ pc = "parse"
    /\ arg \in TopArgs
    /\ opts \in FormatOptions
    /\ res = [text |-> Flatten(arg.pieces), ast |-> NoAst, hasRanges |-> FALSE,
              ignoreRanges |-> <<>>, output |-> <<>>, first |-> <<>>, pass |-> 1]

SpecDocument == InitDocument /\ [][NextFormat]_vars

\* C12 as stated: the output of every format that succeeds ends with exactly
\* one line break, for the empty document and for a document of white space
\* as for any other.
C12_NewlineTerminated ==
    pc = "done" =>
        /\ res.output # <<>>
        /\ res.output[Len(res.output)] = "\n"
        /\ Len(res.output) >= 2 => res.output[Len(res.output) - 1] # "\n"

IsStructural(n) == n.type \in {"WXElement", "WXScript", "WXComment"}

IsBlankText(n) == n.type = "WXText" /\ n.value # NullStr /\ Trim(n.value) = <<>>

\* the top-level nodes that print something, in document order
PrintedTop == SelectSeq(res.ast.body, LAMBDA n : ~IsBlankText(n))

\* the printed top-level nodes one after the other, with one hardline between
\* two neighbours when at least one of them is structural
SeparatedTop ==
    Flatten([k \in 1..Len(PrintedTop) |->
                (IF k > 1 /\ (IsStructural(PrintedTop[k - 1]) \/ IsStructural(PrintedTop[k]))
                 THEN hardline ELSE <<>>)
                \o print(PrintedTop[k], PrintContext)])

TopDone == pc = "done" /\ arg.kind = "top" /\ res.pass = 1

\* C13: at the top level, two printed nodes that follow each other and of
\* which one at least is an element, a script or a comment are separated by
\* exactly one hardline, and a text of white space alone gives neither output
\* nor a separator.
C13_TopLevelSeparation ==
    TopDone =>
        res.output = IF PrintedTop = <<>> THEN <<>>
                     ELSE Render(SeparatedTop \o hardline, opts.tabWidth)

\* a text, white space as a node of its own, then an element, a script or a comment
C13_Witness ==
    /\ TopDone
    /\ Len(res.ast.body) = 3
    /\ res.ast.body[1].type = "WXText" /\ ~IsBlankText(res.ast.body[1])
    /\ IsBlankText(res.ast.body[2])
    /\ IsStructural(res.ast.body[3])

(***************************************************************************)
(* Elements and their children: the layout that printElement chooses       *)
(***************************************************************************)
MaxKids == 3

\* the length below which children are short (printer.js, 900 and 908)
InlineLimit == 50

Blank48 == [k \in 1..48 |-> " "]
Word49 == [k \in 1..49 |-> "a"]
EmptyB == <<"<", "b", "/", ">">>

KidPieces == {<<"a">>, <<" ">>, <<"\n">>, EmptyB, Blank48, Word49}

ElementNames == {<<"v">>, <<"B", "l", "o", "c", "k">>}

ElementArgs ==
    {[kind |-> "element", name |-> n, kids |-> ks, lex |-> x] :
        n \in ElementNames, ks \in SeqsUpTo(KidPieces, MaxKids), x \in {"whole", "edges"}}

ElementOptions ==
    [wxmlPrintWidth : {Undefined}, printWidth : {80}, wxmlSingleQuote : {FALSE},
     tabWidth : {2}, wxsTabWidth : {Undefined}, wxsSingleQuote : {TRUE},
     wxmlPreferBreakTags : {{}, {<<"v">>}}]

NamedElement(name, content) ==
    <<"<">> \o name \o <<">">> \o content \o <<"<", "/">> \o name \o <<">">>

InitElement ==
    /\ pc = "parse"
    /\ arg \in ElementArgs
    /\ opts \in ElementOptions
    /\ res = [text |-> NamedElement(arg.name, Flatten(arg.kids)), ast |-> NoAst,
              hasRanges |-> FALSE, ignoreRanges |-> <<>>, output |-> <<>>, first |-> <<>>,
              pass |-> 1]

SpecElement == InitElement /\ [][NextFormat]_vars

ElementDone == pc = "done" /\ arg.kind = "element" /\ res.pass = 1

KidsSource == Flatten(arg.kids)

\* the lines of the output, without the line break that ends it
OutputLines == SplitLines(SubSeq(res.output, 1, Len(res.output) - 1))

\* the children stand between the tags, on the line of the tags
InlineLayout ==
    /\ Trim(KidsSource) # <<>>
    /\ Len(OutputLines) = 1

\* the tags on lines of their own and every line between them indented
BlockLayout ==
    /\ Len(OutputLines) >= 3
    /\ OutputLines[1] = <<"<">> \o arg.name \o <<">">>
    /\ OutputLines[Len(OutputLines)] = <<"<", "/">> \o arg.name \o <<">">>
    /\ \A k \in 2..(Len(OutputLines) - 1) :
           OutputLines[k] = <<>> \/ StartsWith(OutputLines[k], Spaces(opts.tabWidth))

NotBreakTag ==
    /\ toLowerCase(arg.name) # <<"b", "l", "o", "c", "k">>
    /\ toLowerCase(arg.name) \notin opts.wxmlPreferBreakTags

LoneTextChild ==
    Len(res.ast.body[1].children) = 1 /\ res.ast.body[1].children[1].type = "WXText"

ElementKids == res.ast.body[1].children

NonBlankKids == SelectSeq(ElementKids, LAMBDA n : ~IsBlankText(n))

\* the lines a child takes in block layout: a text takes one per line of its own
LinesOfKid(n) ==
    IF n.type = "WXText" THEN 1 + Cardinality({k \in 1..Len(n.value) : n.value[k] = "\n"})
    ELSE 1

RECURSIVE SumLinesOf(_)
SumLinesOf(ns) == IF ns = <<>> THEN 0 ELSE LinesOfKid(Head(ns)) + SumLinesOf(Tail(ns))

\* C15: in block layout a child of white space alone gives no output (an
\* element with no other child prints as an empty element, and the lines
\* between the tags are those of the other children); in inline layout it is
\* printed as it stands, so that the children read as in the source.
C15_BlankTextChildren ==
    ElementDone =>
        /\ InlineLayout => res.output = NamedElement(arg.name, KidsSource) \o <<"\n">>
        /\ ~InlineLayout =>
               IF NonBlankKids = <<>>
               THEN res.output = NamedElement(arg.name, <<>>) \o <<"\n">>
               ELSE Len(OutputLines) = 2 + SumLinesOf(NonBlankKids)

\* white space as children of their own around a text, printed inline
C15_Witness ==
    /\ ElementDone
    /\ InlineLayout
    /\ Len(ElementKids) = 3
    /\ IsBlankText(ElementKids[1])
    /\ IsBlankText(ElementKids[3])

(***************************************************************************)
(* The text element, with and without an attribute                         *)
(***************************************************************************)
TextName == <<"t", "e", "x", "t">>

TextPieces == {<<"a">>, <<" ">>, <<"\n">>, <<"{", "{", "a", "}", "}">>}

TextAttrs == {<<>>, <<" ", "c", "=", DQ, "d", DQ>>}

TextArgs ==
    {[kind |-> "text", attrs |-> a, kids |-> ks, lex |-> x] :
        a \in TextAttrs, ks \in SeqsUpTo(TextPieces, MaxKids), x \in {"whole", "edges"}}

TextStartTag(a) == <<"<">> \o TextName \o a.attrs \o <<">">>

InitText ==
    /\ pc = "parse"
    /\ arg \in TextArgs
    /\ opts \in FormatOptions
    /\ res = [text |-> TextStartTag(arg) \o Flatten(arg.kids) \o <<"<", "/">> \o TextName \o <<">">>,
              ast |-> NoAst, hasRanges |-> FALSE, ignoreRanges |-> <<>>, output |-> <<>>,
              first |-> <<>>, pass |-> 1]

SpecText == InitText /\ [][NextFormat]_vars

TextDone == pc = "done" /\ arg.kind = "text" /\ res.pass = 1

\* C16 as stated: the children of a text element are in the output as they
\* are in the source, and when the element has an attribute they are laid out
\* in block form: the line of the start tag ends with the start tag.
C16_VerbatimText ==
    (TextDone /\ arg.kids # <<>>) =>
        /\ Includes(res.output, Flatten(arg.kids))
        /\ arg.attrs # <<>> => SplitLines(res.output)[1] = TextStartTag(arg)

(***************************************************************************)
(* An element whose only child is one interpolation                        *)
(***************************************************************************)
Operand == <<"a">>
ArrayLiteral == <<"[", "a", ",", "b", "]">>
ObjectLiteral == <<"{", "a", ":", "b", "}">>
AndTerm == <<"&", "&", "b">>
OrTerm == <<"|", "|", "c">>

BodyHeads == {Operand, ArrayLiteral, ObjectLiteral}
BodyTerms == {AndTerm, OrTerm}

InterpolationArgs ==
    {[kind |-> "interpolation", name |-> n, head |-> h, terms |-> t, lex |-> x] :
        n \in {<<"v">>, TextName}, h \in BodyHeads, t \in SeqsUpTo(BodyTerms, MaxKids), x \in {"whole", "edges"}}

InterpolationBody(a) == a.head \o Flatten(a.terms)

InitInterpolation ==
    /\ pc = "parse"
    /\ arg \in InterpolationArgs
    /\ opts \in FormatOptions
    /\ res = [text |-> NamedElement(arg.name, <<"{", "{">> \o InterpolationBody(arg) \o <<"}", "}">>),
              ast |-> NoAst, hasRanges |-> FALSE, ignoreRanges |-> <<>>, output |-> <<>>,
              first |-> <<>>, pass |-> 1]

SpecInterpolation == InitInterpolation /\ [][NextFormat]_vars

InterpolationDone == pc = "done" /\ arg.kind = "interpolation" /\ res.pass = 1

CountOf(terms, term) == Cardinality({k \in 1..Len(terms) : terms[k] = term})

\* an object literal, an array literal, two && or more, or && with ||
IsComplexBody(a) ==
    \/ a.head = ObjectLiteral
    \/ a.head = ArrayLiteral
    \/ CountOf(a.terms, AndTerm) >= 2
    \/ CountOf(a.terms, AndTerm) >= 1 /\ CountOf(a.terms, OrTerm) >= 1

\* C17 as stated: the interpolation that is the only child of an element is
\* on a line of its own, between the lines of the tags, when its body is
\* complex, and on the line of the tags otherwise.
C17_ComplexInterpolation ==
    InterpolationDone =>
        LET lines == SplitLines(SubSeq(res.output, 1, Len(res.output) - 1)) IN
        IF IsComplexBody(arg)
        THEN /\ Len(lines) >= 3
             /\ lines[1] = <<"<">> \o arg.name \o <<">">>
             /\ lines[Len(lines)] = <<"<", "/">> \o arg.name \o <<">">>
        ELSE Len(lines) = 1

(***************************************************************************)
(* Parse failures: what parser.parse throws for the errors the grammar     *)
(* parser reports                                                          *)
(***************************************************************************)
MaxErrors == 2

ErrorMessages == {"unexpected character", "expecting token"}

ErrorPositions == {[line |-> 1, column |-> 1], [line |-> 1, column |-> 5],
                   [line |-> 2, column |-> 3]}

ReportedErrors == [message : ErrorMessages, start : ErrorPositions]

ErrorArgs ==
    {[kind |-> "errors", lexErrors |-> l, parseErrors |-> p] :
        l \in SeqsUpTo(ReportedErrors, MaxErrors),
        p \in SeqsUpTo(ReportedErrors, MaxErrors)}

NoOutcome == [ok |-> FALSE, message |-> "", start |-> [line |-> 0, column |-> 0]]

\* a SyntaxError whose message ends with the position, and which carries the
\* position as its loc.start
createError(message, start) ==
    [ok |-> FALSE,
     message |-> message \o " (" \o ToString(start.line) \o ":"
                     \o ToString(start.column) \o ")",
     start |-> start]

\* the body of the try block of parser.parse, from the report of the grammar
\* parser on: the first lexer error is thrown, else the first parser error
parseTry(lexErrors, parseErrors) ==
    IF Len(lexErrors) > 0
    THEN createError(lexErrors[1].message, lexErrors[1].start)
    ELSE IF Len(parseErrors) > 0
    THEN createError(parseErrors[1].message, parseErrors[1].start)
    ELSE [ok |-> TRUE, message |-> "", start |-> [line |-> 0, column |-> 0]]

\* the catch block of parser.parse: whatever the try block threw is thrown
\* again with its message
parseCatch(error) ==
    IF error.ok THEN error
    ELSE createError(error.message, [line |-> 1, column |-> 1])

parseReported(lexErrors, parseErrors) == parseCatch(parseTry(lexErrors, parseErrors))

InitErrors ==
    /\ pc = "ready"
    /\ arg \in ErrorArgs
    /\ opts \in FormatOptions
    /\ res = NoOutcome

\* parser.parse (xml-tools variant) from the report of the grammar parser on
ParseReported ==
    /\ pc = "ready"
    /\ arg.kind = "errors"
    /\ LET Outcome(r) == res' = r /\ pc' = IF r.ok THEN "done" ELSE "failed"
       IN  Outcome(parseReported(arg.lexErrors, arg.parseErrors))
    /\ UNCHANGED <<opts, arg>>

NextErrors == ParseReported

SpecErrors == InitErrors /\ [][NextErrors]_vars

FirstReported(a) ==
    IF Len(a.lexErrors) > 0 THEN a.lexErrors[1] ELSE a.parseErrors[1]

\* C18 as stated: when the grammar parser reports a lexer or a parser error,
\* parse returns no tree and the error it throws carries the line and the
\* column of the first reported error, lexer errors before parser errors.
C18_FailureLocation ==
    arg.kind = "errors" /\ pc # "ready"
        /\ Len(arg.lexErrors) + Len(arg.parseErrors) > 0
    => /\ pc = "failed"
       /\ ~res.ok
       /\ res.start = FirstReported(arg).start

(***************************************************************************)
(* Ignore ranges from the comment tokens of one text                       *)
(***************************************************************************)
MaxComments == 4

OtherComment == <<"<", "!", "-", "-", "x", "-", "-", ">">>

CommentImages == {ignoreStartComment, ignoreEndComment, OtherComment}

RECURSIVE CommentTokensAt(_, _, _)
\* the tokens of the comments with these images, met in this order in a text
\* where the first begins at offset `at` and `gap` characters separate them
CommentTokensAt(images, at, gap) ==
    IF images = <<>> THEN <<>>
    ELSE <<[image |-> Head(images), startOffset |-> at,
            endOffset |-> at + Len(Head(images))]>>
         \o CommentTokensAt(Tail(images), at + Len(Head(images)) + gap, gap)

Reversed(s) == [k \in 1..Len(s) |-> s[Len(s) + 1 - k]]

IgnoreArgs ==
    {[kind |-> "comments", images |-> im, at |-> a, gap |-> g, reversed |-> r] :
        im \in SeqsUpTo(CommentImages, MaxComments), a \in {0, 2}, g \in {0, 3},
        r \in BOOLEAN}

\* the comment tokens handed to buildIgnoreRanges, in offset order
TokensInOrder(a) == CommentTokensAt(a.images, a.at, a.gap)

TokensOf(a) == IF a.reversed THEN Reversed(TokensInOrder(a)) ELSE TokensInOrder(a)

InitIgnore ==
    /\ pc = "ready"
    /\ arg \in IgnoreArgs
    /\ opts \in FormatOptions
    /\ res = <<>>

\* buildIgnoreRanges on the comment tokens
BuildIgnoreRanges ==
    /\ pc = "ready"
    /\ arg.kind = "comments"
    /\ res' = buildIgnoreRanges(TokensOf(arg))
    /\ pc' = "done"
    /\ UNCHANGED <<opts, arg>>

NextIgnore == BuildIgnoreRanges

SpecIgnore == InitIgnore /\ [][NextIgnore]_vars

IgnoreDone == pc = "done" /\ arg.kind = "comments"

IsStartToken(t) == t.image = ignoreStartComment
IsEndToken(t) == t.image = ignoreEndComment

\* C19: the ranges buildIgnoreRanges returns each go from the start offset of
\* an ignore-start comment to the end offset of a later ignore-end comment,
\* with start < end; they are in ascending order and do not overlap; an
\* ignore-end with no ignore-start before it, and an ignore-start with no
\* ignore-end after it, give no range.
C19_IgnoreRangesWellFormed ==
    IgnoreDone =>
        LET ts == TokensInOrder(arg)
            N == Len(ts)
            Starts == {k \in 1..N : IsStartToken(ts[k])}
            Ends == {k \in 1..N : IsEndToken(ts[k])}
        IN  /\ \A i \in 1..Len(res) :
                /\ res[i].start < res[i].end
                /\ \E s \in Starts, e \in Ends :
                      /\ s < e
                      /\ res[i].start = ts[s].startOffset
                      /\ res[i].end = ts[e].endOffset
            /\ \A i \in 1..Len(res), j \in 1..Len(res) :
                  i < j => res[i].end <= res[j].start
            /\ \A e \in Ends :
                  (\A s \in Starts : s > e)
                      => \A i \in 1..Len(res) : res[i].end # ts[e].endOffset
            /\ \A s \in Starts :
                  (\A e \in Ends : e < s)
                      => \A i \in 1..Len(res) : res[i].start # ts[s].startOffset

\* witness of C19: two ranges from tokens handed over in reverse order, with
\* an ignore-end that has no start before it
C19_Witness ==
    /\ IgnoreDone
    /\ arg.reversed
    /\ arg.images = <<ignoreEndComment, ignoreStartComment, ignoreEndComment,
                      ignoreStartComment>>
    /\ Len(res) = 1

\* C20 as stated: for every ignore-start comment followed by an ignore-end
\* comment, the span from that start comment to the first ignore-end after
\* it lies inside one of the ranges buildIgnoreRanges returns.
C20_StartPairedWithNextEnd ==
    IgnoreDone =>
        LET ts == TokensInOrder(arg)
            N == Len(ts)
            Starts == {k \in 1..N : IsStartToken(ts[k])}
            Ends == {k \in 1..N : IsEndToken(ts[k])}
        IN  \A s \in Starts :
                (\E e \in Ends : e > s) =>
                    LET first == CHOOSE e \in Ends :
                                     e > s /\ \A f \in Ends : f > s => e <= f
                    IN  \E i \in 1..Len(res) :
                            /\ res[i].start <= ts[s].startOffset
                            /\ ts[first].endOffset <= res[i].end

(***************************************************************************)
(* Multi-root detection on texts made of top-level pieces                  *)
(***************************************************************************)
DetectPieces ==
    {[kind |-> "element", text |-> <<"<", "a", "/", ">">>],
     [kind |-> "element", text |-> <<"<", "b", ">", "<", "a", "/", ">", "<", "/", "b", ">">>],
     [kind |-> "element", text |-> <<"<", "c", ">", SQ, "<", "/", "c", ">">>],
     [kind |-> "element", text |-> <<"<", "b", " ", "c", "=", DQ, ">", DQ, "/", ">">>],
     [kind |-> "comment", text |-> <<"<", "!", "-", "-", "x", "-", "-", ">">>],
     [kind |-> "text", text |-> <<"x">>],
     [kind |-> "blank", text |-> <<" ">>]}

DetectArgs ==
    {[kind |-> "detect", pieces |-> ps] : ps \in SeqsUpTo(DetectPieces, MaxTop)}

DetectText(a) == Flatten([i \in 1..Len(a.pieces) |-> a.pieces[i].text])

InitDetect ==
    /\ pc = "ready"
    /\ arg \in DetectArgs
    /\ opts \in FormatOptions
    /\ res = FALSE

\* hasMultipleRoots on the text of the pieces
HasMultipleRoots ==
    /\ pc = "ready"
    /\ arg.kind = "detect"
    /\ res' = hasMultipleRoots(DetectText(arg))
    /\ pc' = "done"
    /\ UNCHANGED <<opts, arg>>

NextDetect == HasMultipleRoots

SpecDetect == InitDetect /\ [][NextDetect]_vars

DetectDone == pc = "done" /\ arg.kind = "detect"

\* some piece that is not white space follows the first top-level element
ContentFollowsFirstRoot(ps) ==
    \E f \in 1..Len(ps) :
        /\ ps[f].kind = "element"
        /\ \A k \in 1..(f - 1) : ps[k].kind # "element"
        /\ \E k \in (f + 1)..Len(ps) : ps[k].kind # "blank"

\* C21 as stated: hasMultipleRoots is true exactly when content other than
\* white space follows the first top-level element, where a quote in text
\* content does not affect the scan and a comment is not the first element.
C21_MultiRootDetection ==
    DetectDone => (res <=> ContentFollowsFirstRoot(arg.pieces))

(***************************************************************************)
(* Unwrapping the synthetic root: top-level elements, comments and text    *)
(***************************************************************************)
UnwrapPool ==
    {[kind |-> "element", name |-> <<"a">>, text |-> <<"<", "a", "/", ">">>],
     [kind |-> "element", name |-> <<"b">>,
      text |-> <<"<", "b", ">", "x", "<", "/", "b", ">">>],
     [kind |-> "comment", name |-> <<>>, text |-> CommentC],
     [kind |-> "comment", name |-> <<>>, text |-> OtherComment],
     [kind |-> "text", name |-> <<>>, text |-> <<"x">>]}

UnwrapArgs ==
    {[kind |-> "unwrap", roots |-> rs, lex |-> x] :
        rs \in SeqsUpTo(UnwrapPool, MaxRoots) \ {<<>>}, x \in {"whole", "edges"}}

InitUnwrap ==
    /\ pc = "ready"
    /\ arg \in UnwrapArgs
    /\ opts \in FormatOptions
    /\ res = NoTree

SpecUnwrap == InitUnwrap /\ [][NextRoot]_vars

PiecesOfKind(a, kind) == SelectSeq(a.roots, LAMBDA p : p.kind = kind)

\* C22 as stated: after the synthetic root is removed the top level of the
\* document holds all the children of the synthetic root, elements, comments
\* and text, none dropped, the elements and the comments each in source order.
C22_UnwrapKeepsContent ==
    (pc = "done" /\ arg.kind = "unwrap" /\ res.wrapped) =>
        /\ [i \in 1..Len(res.element) |-> res.element[i].name]
               = [i \in 1..Len(PiecesOfKind(arg, "element")) |->
                     PiecesOfKind(arg, "element")[i].name]
        /\ Len(res.misc) = Len(PiecesOfKind(arg, "comment"))
        /\ \A i \in 1..Len(res.misc), j \in 1..Len(res.misc) :
              i < j => res.misc[i].location.startOffset < res.misc[j].location.startOffset
        /\ Len(res.element) + Len(res.misc) = Len(arg.roots)

(***************************************************************************)
(* Script-body capture on texts made of script containers and other markup *)
(***************************************************************************)
\* the pieces of a text: before and after are what surrounds the body of a
\* script container; a piece that is no script container has no body
CapturePieces ==
    {[script |-> TRUE, before |-> <<"<", "w", "x", "s", ">">>, body |-> <<"x">>,
      after |-> WxsClose],
     [script |-> TRUE, before |-> <<"<", "w", "x", "s", " ", "m", ">">>,
      body |-> <<" ", "y", "\n">>, after |-> WxsClose],
     [script |-> FALSE, before |-> <<"<", "w", "x", "s", " ", "m", "/", ">">>,
      body |-> <<>>, after |-> <<>>],
     [script |-> FALSE, before |-> <<"<", "w", "x", "s", "s", ">", "z", "<", "/", "w", "x",
                                     "s", "s", ">">>,
      body |-> <<>>, after |-> <<>>],
     [script |-> FALSE, before |-> <<"<", "v", "/", ">">>, body |-> <<>>, after |-> <<>>]}

CaptureArgs ==
    {[kind |-> "capture", pieces |-> ps] : ps \in SeqsUpTo(CapturePieces, MaxTop)}

CaptureText(a) ==
    Flatten([i \in 1..Len(a.pieces) |->
                a.pieces[i].before \o a.pieces[i].body \o a.pieces[i].after])

InitCapture ==
    /\ pc = "ready"
    /\ arg \in CaptureArgs
    /\ opts \in FormatOptions
    /\ res = [text |-> <<>>, items |-> <<>>]

\* protectWxsContent on the text of the pieces
ProtectWxsContent ==
    /\ pc = "ready"
    /\ arg.kind = "capture"
    /\ res' = protectWxsContent(CaptureText(arg))
    /\ pc' = "done"
    /\ UNCHANGED <<opts, arg>>

NextCapture == ProtectWxsContent

SpecCapture == InitCapture /\ [][NextCapture]_vars

ScriptPiecesOf(a) == SelectSeq(a.pieces, LAMBDA p : p.script)

RECURSIVE CapturedText(_, _)
\* the text of the pieces with the body of the n-th script container
\* replaced by the n-th placeholder
CapturedText(ps, n) ==
    IF ps = <<>> THEN <<>>
    ELSE IF Head(ps).script
    THEN Head(ps).before \o WxsPlaceholder(n) \o Head(ps).after
             \o CapturedText(Tail(ps), n + 1)
    ELSE Head(ps).before \o CapturedText(Tail(ps), n)

\* C23 as stated: every script placeholder replaces exactly the body of one
\* script container, markup outside the script containers is never captured,
\* and the recorded content is the body without its surrounding white space.
C23_CaptureConfined ==
    (pc = "done" /\ arg.kind = "capture") =>
        /\ res.text = CapturedText(arg.pieces, 0)
        /\ [i \in 1..Len(res.items) |-> res.items[i].content]
               = [i \in 1..Len(ScriptPiecesOf(arg)) |-> Trim(ScriptPiecesOf(arg)[i].body)]

(***************************************************************************)
(* Script source reconstruction from fragments supplied in any order       *)
(***************************************************************************)
MaxFragments == 3

FragmentImages == {<<"x">>, <<" ">>, <<"y", ";">>}

\* the fragments in source order, and the order in which the character data
\* array holds them
SourceArgs ==
    {[kind |-> "source", fragments |-> f, supplied |-> p] :
        f \in SeqsUpTo(FragmentImages, MaxFragments) \ {<<>>},
        p \in UNION {Permutations(1..k) : k \in 1..MaxFragments}}

SuppliedChardata(a) == [i \in 1..Len(a.fragments) |-> a.fragments[a.supplied[i]]]

InitSource ==
    /\ pc = "ready"
    /\ arg \in SourceArgs
    /\ Len(arg.supplied) = Len(arg.fragments)
    /\ opts \in ScriptOptions
    /\ res = <<>>

\* getSource on the character data as supplied
GetSource ==
    /\ pc = "ready"
    /\ arg.kind = "source"
    /\ \E order \in Permutations(1..Len(arg.fragments)) :
           res' = getSource(SuppliedChardata(arg), order)
    /\ pc' = "done"
    /\ UNCHANGED <<opts, arg>>

NextSource == GetSource

SpecSource == InitSource /\ [][NextSource]_vars

\* C24 as stated: in whatever order the fragments of a script container are
\* supplied, getSource returns them concatenated in ascending offset order,
\* which is the original content.
C24_SourceInOffsetOrder ==
    (pc = "done" /\ arg.kind = "source") => res = Flatten(arg.fragments)

(***************************************************************************)
(* Interpolation normalisation on expressions of operands and && / ||      *)
(***************************************************************************)
MaxTerms == 2

\* an operand as written, and as it reads with its newline run collapsed
ExprOperands ==
    {[written |-> <<"a">>, collapsed |-> <<"a">>],
     [written |-> <<"f", "(", "b", ",", " ", "\n", "\t", "c", ")">>,
      collapsed |-> <<"f", "(", "b", ",", " ", "c", ")">>]}

GapsBefore == {<<>>, <<"\n", " ">>}
GapsAfter == {<<>>, <<" ", " ">>}
EdgeGaps == {<<>>, <<" ", "\n">>}
ExprOperators == {<<"&", "&">>, <<"|", "|">>}

ExprTerms == [before : GapsBefore, op : ExprOperators, after : GapsAfter, operand : ExprOperands]

ExprArgs ==
    {[kind |-> "expr", lws |-> l, first |-> f, terms |-> t, rws |-> r] :
        l \in EdgeGaps, f \in ExprOperands, t \in SeqsUpTo(ExprTerms, MaxTerms),
        r \in EdgeGaps}

\* the text around one interpolation
ExprPrefix == <<"x", " ">>
ExprSuffix == <<" ", "y">>

ExprWritten(a) ==
    ExprPrefix \o <<"{", "{">> \o a.lws \o a.first.written
        \o Flatten([i \in 1..Len(a.terms) |->
                       a.terms[i].before \o a.terms[i].op \o a.terms[i].after
                           \o a.terms[i].operand.written])
        \o a.rws \o <<"}", "}">> \o ExprSuffix

InitExpr ==
    /\ pc = "ready"
    /\ arg \in ExprArgs
    /\ opts \in FormatOptions
    /\ res = [text |-> ExprWritten(arg), previous |-> <<>>, pass |-> 0]

\* formatWxmlInterpolations applied to the text, a first and a second time
FormatWxmlInterpolations ==
    /\ pc = "ready"
    /\ arg.kind = "expr"
    /\ res.pass < 2
    /\ res' = [text |-> formatWxmlInterpolations(res.text), previous |-> res.text,
               pass |-> res.pass + 1]
    /\ pc' = IF res.pass = 1 THEN "done" ELSE "ready"
    /\ UNCHANGED <<opts, arg>>

NextExpr == FormatWxmlInterpolations

SpecExpr == InitExpr /\ [][NextExpr]_vars

\* the interpolation with one space on each side of every operator, the
\* newline runs of the operands collapsed, and the white space inside the
\* braces as written
ExprNormalised(a) ==
    ExprPrefix \o <<"{", "{">> \o a.lws \o a.first.collapsed
        \o Flatten([i \in 1..Len(a.terms) |->
                       <<" ">> \o a.terms[i].op \o <<" ">> \o a.terms[i].operand.collapsed])
        \o a.rws \o <<"}", "}">> \o ExprSuffix

\* C25: formatWxmlInterpolations gives the same expression with exactly one
\* space on each side of every && and ||, every newline run inside the
\* expression replaced by one space, and the white space directly inside the
\* braces kept; a second application changes nothing.
C25_InterpolationNormalised ==
    (arg.kind = "expr" /\ res.pass >= 1) =>
        /\ res.text = ExprNormalised(arg)
        /\ res.pass = 2 => res.text = res.previous

\* witness of C25: an unspaced operator after a newline and an operand with
\* a newline run, formatted twice
C25_Witness ==
    /\ arg.kind = "expr" /\ res.pass = 2
    /\ arg.lws = <<" ", "\n">>
    /\ Len(arg.terms) = 2
    /\ arg.terms[1].before = <<"\n", " ">> /\ arg.terms[1].after = <<>>
    /\ arg.terms[2].operand.written # arg.terms[2].operand.collapsed
    /\ res.text # ExprWritten(arg)

(***************************************************************************)
(* Protect / restore round trip on texts and attribute values              *)
(***************************************************************************)
RoundTripPieces ==
    {<<"{", "{", "a", "}", "}">>,
     <<"{", "{", "$", "&", "}", "}">>,
     <<"{", "{", "b", "$", "$", "}", "}">>,
     <<"x">>,
     TemplatePlaceholder(0)}

RoundTripArgs ==
    {[kind |-> "roundtrip", pieces |-> ps, field |-> f, lex |-> x] :
        ps \in SeqsUpTo(RoundTripPieces, MaxTop) \ {<<>>}, f \in {"text", "attribute"},
        x \in {"whole", "edges"}}

RoundTripContent(a) == Flatten(a.pieces)

RoundTripText(a) ==
    IF a.field = "text" THEN ElementText(RoundTripContent(a))
    ELSE <<"<", "v", " ", "c", "=", DQ>> \o RoundTripContent(a) \o <<DQ, "/", ">">>

InitRoundTrip ==
    /\ pc = "ready"
    /\ arg \in RoundTripArgs
    /\ opts \in FormatOptions
    /\ res = NoAst

\* parser.parse on the text: protection, the grammar parser, restoration
ParseRoundTrip ==
    /\ pc = "ready"
    /\ arg.kind = "roundtrip"
    /\ LET Parsed(ast) == res' = ast /\ pc' = IF ast.ok THEN "done" ELSE "failed"
       IN  Parsed(parse(RoundTripText(arg), arg.lex))
    /\ UNCHANGED <<opts, arg>>

NextRoundTrip == ParseRoundTrip

SpecRoundTrip == InitRoundTrip /\ [][NextRoundTrip]_vars

\* the content of the field that held the placeholders, after restoration
RestoredField ==
    IF arg.field = "text"
    THEN Flatten([i \in 1..Len(res.body[1].children) |-> res.body[1].children[i].value])
    ELSE res.body[1].startTag.attributes[1].value

\* C26 as stated: after restoration the field that held the placeholders has
\* the source text again, every interpolation byte for byte whatever its
\* characters, and the literal text around them unchanged.
C26_RoundTrip ==
    (pc = "done" /\ arg.kind = "roundtrip") => RestoredField = RoundTripContent(arg)

(***************************************************************************)
(* The final quote pass on formatted scripts made of literals, comments    *)
(* and other code                                                          *)
(***************************************************************************)
\* a piece of formatted script: a simple string literal is given by its
\* delimiter and its content, every other piece by its text
QuotePieces ==
    {[simple |-> TRUE, quote |-> DQ, text |-> <<"a">>],
     [simple |-> TRUE, quote |-> SQ, text |-> <<"b", " ">>],
     [simple |-> FALSE, quote |-> "", text |-> <<SQ, "c", DQ, "d", DQ, "e", SQ>>],
     [simple |-> FALSE, quote |-> "", text |-> <<DQ, "c", SQ, "d", SQ, "e", DQ>>],
     [simple |-> FALSE, quote |-> "", text |-> <<"/", "/", " ", DQ, "f", DQ, "\n">>],
     [simple |-> FALSE, quote |-> "", text |-> <<" ", "x", " ", "=", " ">>]}

QuoteArgs ==
    {[kind |-> "quotes", pieces |-> ps, useSingleQuote |-> u] :
        ps \in SeqsUpTo(QuotePieces, MaxPieces), u \in BOOLEAN}

PieceText(p) == IF p.simple THEN <<p.quote>> \o p.text \o <<p.quote>> ELSE p.text

QuoteCode(a) == Flatten([i \in 1..Len(a.pieces) |-> PieceText(a.pieces[i])])

InitQuotes ==
    /\ pc = "ready"
    /\ arg \in QuoteArgs
    /\ opts \in ScriptOptions
    /\ res = [code |-> QuoteCode(arg), previous |-> <<>>, pass |-> 0]

\* enforceWxsStringQuotes applied to the formatted script, a first and a
\* second time
EnforceWxsStringQuotes ==
    /\ pc = "ready"
    /\ arg.kind = "quotes"
    /\ res.pass < 2
    /\ res' = [code |-> enforceWxsStringQuotes(res.code, arg.useSingleQuote),
               previous |-> res.code, pass |-> res.pass + 1]
    /\ pc' = IF res.pass = 1 THEN "done" ELSE "ready"
    /\ UNCHANGED <<opts, arg>>

NextQuotes == EnforceWxsStringQuotes

SpecQuotes == InitQuotes /\ [][NextQuotes]_vars

\* the script with the delimiters of its simple string literals set to the
\* preferred quote and nothing else changed
DelimitersSet(a) ==
    LET q == IF a.useSingleQuote THEN SQ ELSE DQ IN
    Flatten([i \in 1..Len(a.pieces) |->
                IF a.pieces[i].simple THEN <<q>> \o a.pieces[i].text \o <<q>>
                ELSE a.pieces[i].text])

\* C27 as stated: enforceWxsStringQuotes replaces only the two delimiters of
\* the simple string literals; quote characters inside a literal delimited by
\* the other quote, or inside a comment, are unchanged, and a second
\* application changes nothing.
C27_OnlyDelimiters ==
    (arg.kind = "quotes" /\ res.pass >= 1) =>
        /\ res.code = DelimitersSet(arg)
        /\ res.pass = 2 => res.code = res.previous

(***************************************************************************)
(* Offsets of the parsed nodes against the original text                   *)
(***************************************************************************)
OffsetPieces ==
    {<<"<", "b", "/", ">">>,
     ElementText(<<"{", "{", "a", "}", "}">>),
     ElementText(<<"x">>),
     <<"<", "w", "x", "s", ">", "x", "<", "/", "w", "x", "s", ">">>,
     CommentC}

OffsetArgs ==
    {[kind |-> "offsets", pieces |-> ps, lex |-> x] :
        ps \in SeqsUpTo(OffsetPieces, MaxTop) \ {<<>>}, x \in {"whole", "edges"}}

OffsetText(a) == Flatten(a.pieces)

InitOffsets ==
    /\ pc = "ready"
    /\ arg \in OffsetArgs
    /\ opts \in FormatOptions
    /\ res = NoAst

\* parser.parse on the text of the pieces
ParseOffsets ==
    /\ pc = "ready"
    /\ arg.kind = "offsets"
    /\ LET Parsed(ast) == res' = ast /\ pc' = IF ast.ok THEN "done" ELSE "failed"
       IN  Parsed(parse(OffsetText(arg), arg.lex))
    /\ UNCHANGED <<opts, arg>>

NextOffsets == ParseOffsets

SpecOffsets == InitOffsets /\ [][NextOffsets]_vars

\* originalText.slice(location.startOffset, location.endOffset), which stops
\* at the end of the text
OriginalSlice(a, location) ==
    SubSeq(OffsetText(a), location.startOffset + 1,
           IF location.endOffset > Len(OffsetText(a)) THEN Len(OffsetText(a))
           ELSE location.endOffset)

\* C28 as stated: the offsets of every top-level node and of every comment
\* token of the tree are positions in the original text, so the slice of the
\* original text between them is the source of the node.
C28_OffsetsInOriginal ==
    (pc = "done" /\ arg.kind = "offsets") =>
        /\ Len(res.body) = Len(arg.pieces)
        /\ \A i \in 1..Len(res.body) :
              OriginalSlice(arg, res.body[i].location) = arg.pieces[i]
        /\ \A i \in 1..Len(res.commentTokens) :
              OriginalSlice(arg, [startOffset |-> res.commentTokens[i].startOffset,
                                  endOffset |-> res.commentTokens[i].endOffset])
                  = res.commentTokens[i].image

(***************************************************************************)
(* Well-formed attribute values                                            *)
(***************************************************************************)
\* C29 as stated: what normalizeAttrValueForWxmlQuotes returns for a value,
\* quoted or not, begins and ends with the same quote character and has no
\* occurrence of that quote character in between.
C29_ValueWellFormed ==
    (pc = "done" /\ arg.kind = "value") =>
        /\ Len(res.text) >= 2
        /\ res.text[1] \in {DQ, SQ}
        /\ res.text[Len(res.text)] = res.text[1]
        /\ ~Includes(SubSeq(res.text, 2, Len(res.text) - 1), <<res.text[1]>>)

(***************************************************************************)
(* String literals inside interpolation expressions                        *)
(***************************************************************************)
LiteralPieces ==
    {<<"a">>, <<" ">>, <<"&", "&">>, <<"|", "|">>,
     <<SQ, "x", "&", "&", "y", SQ>>,
     <<DQ, "p", " ", "|", "|", " ", "q", DQ>>,
     <<SQ, "z", SQ>>}

LiteralArgs ==
    {[kind |-> "literal", pieces |-> ps] : ps \in SeqsUpTo(LiteralPieces, MaxPieces)}

LiteralExpr(a) == Flatten(a.pieces)

InitLiteral ==
    /\ pc = "ready"
    /\ arg \in LiteralArgs
    /\ opts \in FormatOptions
    /\ res = <<>>

\* formatInlineJsExpression on the expression of the pieces
FormatInlineJsExpression ==
    /\ pc = "ready"
    /\ arg.kind = "literal"
    /\ res' = formatInlineJsExpression(LiteralExpr(arg))
    /\ pc' = "done"
    /\ UNCHANGED <<opts, arg>>

NextLiteral == FormatInlineJsExpression

SpecLiteral == InitLiteral /\ [][NextLiteral]_vars

RECURSIVE LiteralsOf(_, _)
\* the string literals of an expression from position i on, each with its
\* quotes, in order
LiteralsOf(s, i) ==
    LET Q == {k \in i..Len(s) : s[k] \in {DQ, SQ}} IN
    IF Q = {} THEN <<>>
    ELSE LET open == MinOf(Q)
             C == {k \in (open + 1)..Len(s) : s[k] = s[open]}
         IN  IF C = {} THEN <<>>
             ELSE <<SubSeq(s, open, MinOf(C))>> \o LiteralsOf(s, MinOf(C) + 1)

\* C30 as stated: the string literals of the expression are the same, with
\* the same characters between their quotes, before and after
\* formatInlineJsExpression.
C30_LiteralsUntouched ==
    (pc = "done" /\ arg.kind = "literal") =>
        LiteralsOf(res, 1) = LiteralsOf(LiteralExpr(arg), 1)

=============================================================================
